---- MODULE Spec2Model ----
(***************************************************************************)
(* Model of uci_rs: the UCI configuration lexer, scanner and parser, the   *)
(* configuration tree (UciConfig / UciSection / UciOption) and the         *)
(* multi-config store UciTree with load / commit / revert.                 *)
(*                                                                         *)
(* Conventions.  A Rust String is a sequence of one-character strings      *)
(* (<<"a","b">> is "ab", <<>> is the empty string); config names, which    *)
(* are only ever used as map keys and file names, and error messages are   *)
(* plain TLA+ strings.  An Option<T> is a sequence of length 0 (None) or   *)
(* 1 (Some).  A HashMap is a function whose DOMAIN is the set of keys.     *)
(***************************************************************************)
EXTENDS Integers, Sequences, FiniteSets, TLC

(***************************************************************************)
(* Characters                                                              *)
(***************************************************************************)
NoRune == "None"

Lower == {"a","b","c","d","e","f","g","h","i","j","k","l","m",
          "n","o","p","q","r","s","t","u","v","w","x","y","z"}

Upper == {"A","B","C","D","E","F","G","H","I","J","K","L","M",
          "N","O","P","Q","R","S","T","U","V","W","X","Y","Z"}

Digits == {"0","1","2","3","4","5","6","7","8","9"}

IdentChars == Lower \cup Upper \cup Digits \cup {"-","_"}

\* char::is_whitespace: the code points with the Unicode White_Space
\* property.  A rune outside ASCII is written "U+XXXX".
WhiteSpace ==
    {"\t", "\n", "", "\f", "\r", " ", "U+000B", "U+0085", "U+00A0", "U+1680",
     "U+2000", "U+2001", "U+2002", "U+2003", "U+2004", "U+2005", "U+2006",
     "U+2007", "U+2008", "U+2009", "U+200A", "U+2028", "U+2029", "U+202F",
     "U+205F", "U+3000"}

HexLow == {"0","1","2","3","4","5","6","7"}

\* char::len_utf8: 1 byte below U+0080, 2 below U+0800, 3 below U+10000,
\* 4 from there on.
len_utf8(rune) ==
    IF Len(rune) < 6 THEN 1
    ELSE IF Len(rune) > 6 THEN 4
    ELSE IF SubSeq(rune, 3, 4) = "00" /\ SubSeq(rune, 5, 5) \in HexLow THEN 1
    ELSE IF SubSeq(rune, 3, 3) = "0" /\ SubSeq(rune, 4, 4) \in HexLow THEN 2
    ELSE 3

\* A byte of a rune outside ASCII that is not its first byte.  The first
\* byte of a rune stands for the rune.
Cont == "cont"

\* str::as_bytes: the UTF-8 encoding of a String.
RECURSIVE as_bytes(_)
as_bytes(s) ==
    IF \A i \in DOMAIN s : Len(s[i]) = 1 THEN s
    ELSE << Head(s) >> \o [i \in 1..(len_utf8(Head(s)) - 1) |-> Cont] \o as_bytes(Tail(s))

\* The String of a well-formed sequence of bytes.
from_utf8(bytes) == SelectSeq(bytes, LAMBDA b : b # Cont)

\* str::len: the length in bytes.
str_len(s) == Len(as_bytes(s))

\* str::is_char_boundary, on the bytes of a String.
is_char_boundary(bytes, off) ==
    off = 0 \/ off = Len(bytes) \/ (off < Len(bytes) /\ bytes[off + 1] # Cont)

\* str::get(from..to), on the bytes of a String: None (<<>>) unless both
\* offsets are char boundaries and from <= to.
str_get(bytes, from, to) ==
    IF from <= to /\ is_char_boundary(bytes, from) /\ is_char_boundary(bytes, to)
    THEN << from_utf8(SubSeq(bytes, from + 1, to)) >>
    ELSE <<>>

\* str::get(from..), on the bytes of a String.
str_get_from(bytes, from) == str_get(bytes, from, Len(bytes))

Quotes == {"'", "\""}

KW_PACKAGE == <<"p","a","c","k","a","g","e">>

KW_CONFIG == <<"c","o","n","f","i","g">>

KW_OPTION == <<"o","p","t","i","o","n">>

KW_LIST == <<"l","i","s","t">>

starts_with(s, p) == Len(s) >= Len(p) /\ SubSeq(s, 1, Len(p)) = p

(***************************************************************************)
(* Lexer (storage/uci/parser/lexer/mod.rs).  input holds the bytes of the  *)
(* String; pos and start are 0-based byte offsets as in the source.        *)
(* diverged records that the call cannot                                   *)
(* return: a loop of the source can no longer terminate, or, with state    *)
(* "Panic", an unwrap() of a slice that is not on a char boundary failed.  *)
(***************************************************************************)
Lexer_new(name, input) ==
    [name |-> name, input |-> as_bytes(input), state |-> "KeyWord", items |-> << <<>> >>,
     start |-> 0, pos |-> 0, width |-> 0, diverged |-> FALSE]

\* self.width = rune.len_utf8(); self.pos += self.width
advance(lx, width) == [lx EXCEPT !.width = width, !.pos = @ + width]

lexer_panic(lx) == [lx EXCEPT !.state = "Panic", !.diverged = TRUE]

next_rune(lx) ==
    IF lx.pos >= Len(lx.input)
    THEN [rune |-> NoRune, lx |-> [lx EXCEPT !.width = 0]]
    ELSE IF lx.input[lx.pos + 1] = Cont
    THEN [rune |-> NoRune, lx |-> lexer_panic(lx)]
    ELSE [rune |-> lx.input[lx.pos + 1],
          lx |-> advance(lx, len_utf8(lx.input[lx.pos + 1]))]

backup(lx) == [lx EXCEPT !.pos = @ - lx.width]

ignore(lx) == [lx EXCEPT !.start = lx.pos]

peek(lx) == LET n == next_rune(lx) IN [rune |-> n.rune, lx |-> backup(n.lx)]

\* Option<String>: None when pos is not a char boundary of the input.
rest(lx) == str_get_from(lx.input, lx.pos)

TokenItem(typ, val, pos) == [typ |-> typ, val |-> val, pos |-> pos]

push_item(lx, it) == [lx EXCEPT !.items = << Append(lx.items[1], it) >>]

emit(lx, typ) ==
    LET push(val) == IF val = <<>> THEN lexer_panic(lx)
                     ELSE [push_item(lx, TokenItem(typ, val[1], lx.pos))
                             EXCEPT !.start = lx.pos]
    IN  IF lx.pos > lx.start THEN push(str_get(lx.input, lx.start, lx.pos)) ELSE lx

lexer_emit_error(lx, error) ==
    IF lx.diverged THEN lx
    ELSE [push_item(lx, TokenItem("Error", "config: " \o lx.name \o ", " \o error, lx.pos))
            EXCEPT !.state = "None"]

\* The state the lex function returns, unless the call did not return.
goto(lx, state) == IF lx.diverged THEN lx ELSE [lx EXCEPT !.state = state]

emit_string(lx, typ) ==
    LET push(val) == IF val = <<>> THEN lexer_panic(lx)
                     ELSE [push_item(lx, TokenItem(typ, val[1], lx.pos))
                             EXCEPT !.start = lx.pos]
    IN  IF lx.pos > lx.start + 1
        THEN push(str_get(lx.input, lx.start + 1, lx.pos - 1))
        ELSE lx

RECURSIVE accept_comment_loop(_)
accept_comment_loop(lx) ==
    LET n == next_rune(lx)
    IN  IF n.rune = NoRune \/ n.rune = "\n" THEN n.lx ELSE accept_comment_loop(n.lx)

accept_comment(lx) ==
    LET n == next_rune(lx)
    IN  backup(IF n.rune = "#" THEN accept_comment_loop(n.lx) ELSE n.lx)

RECURSIVE consume_nowrap_loop(_)
consume_nowrap_loop(lx) ==
    LET p == peek(lx)
    IN  IF p.rune \in {" ", "\t"} THEN consume_nowrap_loop(next_rune(p.lx).lx) ELSE p.lx

consume_nowrap_whitespace(lx) == ignore(consume_nowrap_loop(lx))

RECURSIVE consume_ws_loop(_)
consume_ws_loop(lx) ==
    LET p == peek(lx)
    IN  IF p.rune \in WhiteSpace THEN consume_ws_loop(next_rune(p.lx).lx) ELSE p.lx

consume_whitespace(lx) == ignore(consume_ws_loop(lx))

RECURSIVE accept_ident(_)
accept_ident(lx) ==
    LET n == next_rune(lx)
    IN  IF n.rune = NoRune THEN [n.lx EXCEPT !.diverged = TRUE]
        ELSE IF n.rune \notin IdentChars THEN backup(n.lx)
        ELSE accept_ident(n.lx)

accept_once(lx, val) ==
    LET n == next_rune(lx)
    IN  IF n.rune # NoRune /\ n.rune \in val
        THEN [ok |-> TRUE, lx |-> n.lx]
        ELSE [ok |-> FALSE, lx |-> backup(n.lx)]

PanicItem == TokenItem("Panic", <<>>, 0)

lexer_eof(lx) ==
    LET item(val) == IF val = <<>> THEN PanicItem ELSE TokenItem("Eof", val[1], lx.pos)
    IN  item(str_get(lx.input, lx.start, lx.pos))

lexer_stop(lx) ==
    IF lx.items = <<>>
    THEN [item |-> lexer_eof(lx), lx |-> lx]
    ELSE [item |-> IF lx.items[1] # <<>> THEN Head(lx.items[1]) ELSE lexer_eof(lx),
          lx |-> [lx EXCEPT !.items = <<>>]]

lex_key_word(lx) ==
    LET other(n) ==
            IF n.lx.diverged THEN n.lx
            ELSE IF n.rune = NoRune
            THEN goto(emit(n.lx, "Eof"), "None")
            ELSE lexer_emit_error(n.lx,
                   "expected keyword (package, config, option, list) or eof")
        on(c, curr) ==
            IF curr = <<>> THEN other(next_rune(c))
            ELSE IF starts_with(curr[1], <<"#">>) THEN goto(c, "Comment")
            ELSE IF starts_with(curr[1], KW_PACKAGE) THEN goto(c, "Package")
            ELSE IF starts_with(curr[1], KW_CONFIG) THEN goto(c, "Config")
            ELSE IF starts_with(curr[1], KW_OPTION) THEN goto(c, "Option")
            ELSE IF starts_with(curr[1], KW_LIST) THEN goto(c, "List")
            ELSE other(next_rune(c))
        after(c) == on(c, rest(c))
    IN  after(consume_whitespace(lx))

lex_comment(lx) == goto(ignore(accept_comment(lx)), "KeyWord")

lex_package(lx) ==
    goto(emit([lx EXCEPT !.pos = @ + Len(KW_PACKAGE)], "Package"), "PackageName")

RECURSIVE lex_package_name(_)
lex_package_name(lx) ==
    LET n == next_rune(lx)
    IN  IF n.rune = NoRune THEN [n.lx EXCEPT !.diverged = TRUE]
        ELSE IF n.rune = "\n" THEN lexer_emit_error(n.lx, "incomplete package name")
        ELSE IF n.rune \in WhiteSpace THEN lex_package_name(ignore(n.lx))
        ELSE IF n.rune \in Quotes THEN goto(backup(n.lx), "Quoted")
        ELSE lex_package_name(n.lx)

lex_config(lx) ==
    goto(consume_nowrap_whitespace(emit([lx EXCEPT !.pos = @ + Len(KW_CONFIG)], "Config")),
         "ConfigType")

lex_config_type(lx) ==
    LET a == accept_ident(lx)
    IN  IF a.diverged THEN a
        ELSE goto(consume_nowrap_whitespace(emit(a, "Ident")), "OptionalName")

lex_optional_name(lx) ==
    LET n == next_rune(lx)
    IN  IF n.rune = "\n" THEN goto(ignore(n.lx), "KeyWord")
        ELSE IF n.rune \in Quotes THEN goto(backup(n.lx), "Quoted")
        ELSE LET a == accept_ident(n.lx)
             IN  IF a.diverged THEN a
                 ELSE goto(emit(a, "String"), "KeyWord")

lex_option(lx) ==
    goto(consume_nowrap_whitespace(emit([lx EXCEPT !.pos = @ + Len(KW_OPTION)], "Option")),
         "OptionName")

lex_list(lx) ==
    goto(consume_nowrap_whitespace(emit([lx EXCEPT !.pos = @ + Len(KW_LIST)], "List")),
         "OptionName")

lex_option_name(lx) ==
    LET a == accept_ident(lx)
    IN  IF a.diverged THEN a
        ELSE goto(consume_nowrap_whitespace(emit(a, "Ident")), "Value")

lex_value(lx) ==
    LET p == peek(lx)
    IN  IF p.rune \in Quotes THEN goto(p.lx, "Quoted")
        ELSE goto(p.lx, "Unquoted")

\* A quoted string in which a backslash is a character like any other.
RECURSIVE lex_quoted_plain(_, _)
lex_quoted_plain(lx, q) ==
    LET n == next_rune(lx)
    IN  IF n.rune = "\n" THEN lexer_emit_error(n.lx, "unterminated quoted string")
        ELSE IF n.rune = NoRune THEN lexer_emit_error(n.lx, "unterminated quoted string")
        ELSE IF n.rune = q
        THEN goto(consume_nowrap_whitespace(emit_string(n.lx, "String")), "KeyWord")
        ELSE lex_quoted_plain(n.lx, q)

RECURSIVE lex_quoted_loop(_, _)
lex_quoted_loop(lx, q) ==
    LET n == next_rune(lx)
    IN  IF n.rune = "\\"
        THEN LET m == next_rune(n.lx)
             IN  IF m.rune # NoRune THEN lex_quoted_loop(m.lx, q)
                 ELSE lexer_emit_error(m.lx, "unterminated quoted string")
        ELSE IF n.rune = "\n" THEN lexer_emit_error(n.lx, "unterminated quoted string")
        ELSE IF n.rune = NoRune THEN lexer_emit_error(n.lx, "unterminated quoted string")
        ELSE IF n.rune = q
        THEN goto(consume_nowrap_whitespace(emit_string(n.lx, "String")), "KeyWord")
        ELSE lex_quoted_loop(n.lx, q)

lex_quoted(lx) ==
    LET n == next_rune(lx)
    IN  IF n.rune = NoRune THEN goto(n.lx, "None")
        ELSE IF n.rune \notin Quotes THEN lexer_emit_error(n.lx, "expected quotation")
        ELSE lex_quoted_loop(n.lx, n.rune)

\* An unquoted string in which a backslash is a character like any other.
RECURSIVE lex_unquoted_plain(_)
lex_unquoted_plain(lx) ==
    LET n == next_rune(lx)
    IN  IF n.rune = NoRune THEN lexer_emit_error(n.lx, "unterminated unquoted string")
        ELSE IF n.rune \in {" ", "\t", "#", "\n"}
        THEN goto(ignore(accept_once(consume_nowrap_whitespace(emit(backup(n.lx), "String")),
                                     {"\n"}).lx),
                  "KeyWord")
        ELSE lex_unquoted_plain(n.lx)

RECURSIVE lex_unquoted(_)
lex_unquoted(lx) ==
    LET n == next_rune(lx)
    IN  IF n.rune = "\\"
        THEN LET m == next_rune(n.lx)
             IN  IF m.rune = NoRune
                 THEN lexer_emit_error(m.lx, "unterminated unquoted string")
                 ELSE lex_unquoted(m.lx)
        ELSE IF n.rune = NoRune THEN lexer_emit_error(n.lx, "unterminated unquoted string")
        ELSE IF n.rune \in {" ", "\t", "#", "\n"}
        THEN goto(ignore(accept_once(consume_nowrap_whitespace(emit(backup(n.lx), "String")),
                                     {"\n"}).lx),
                  "KeyWord")
        ELSE lex_unquoted(n.lx)

lexer_action(lx) ==
    CASE lx.state = "Comment" -> lex_comment(lx)
      [] lx.state = "Config" -> lex_config(lx)
      [] lx.state = "ConfigType" -> lex_config_type(lx)
      [] lx.state = "KeyWord" -> lex_key_word(lx)
      [] lx.state = "List" -> lex_list(lx)
      [] lx.state = "Option" -> lex_option(lx)
      [] lx.state = "OptionName" -> lex_option_name(lx)
      [] lx.state = "OptionalName" -> lex_optional_name(lx)
      [] lx.state = "Package" -> lex_package(lx)
      [] lx.state = "PackageName" -> lex_package_name(lx)
      [] lx.state = "Quoted" -> lex_quoted(lx)
      [] lx.state = "Unquoted" -> lex_unquoted(lx)
      [] lx.state = "Value" -> lex_value(lx)
      [] OTHER -> lx

HangItem == TokenItem("Hang", <<>>, 0)

RECURSIVE next_item(_)
next_item(lx) ==
    IF lx.diverged
    THEN [item |-> IF lx.state = "Panic" THEN PanicItem ELSE HangItem, lx |-> lx]
    ELSE IF lx.state # "None"
    THEN IF lx.items = <<>> THEN lexer_stop(lx)
         ELSE IF lx.items[1] # <<>>
         THEN [item |-> Head(lx.items[1]), lx |-> [lx EXCEPT !.items = << Tail(lx.items[1]) >>]]
         ELSE next_item(lexer_action(lx))
    ELSE lexer_stop(lx)

(***************************************************************************)
(* Scanner (storage/uci/parser/mod.rs, storage/uci/parser/imp/mod.rs)      *)
(***************************************************************************)
Scanner_new(name, input) ==
    [lexer |-> Lexer_new(name, input), state |-> "Start", curr |-> <<>>,
     tokens |-> << <<>> >>, last |-> <<>>, diverged |-> FALSE]

Token(typ, items) == [typ |-> typ, items |-> items]

\* The item just lexed, handed over with the lexer that produced it.
scanner_lexed(sc, n) ==
    [item |-> n.item,
     sc |-> [sc EXCEPT !.lexer = n.lx, !.diverged = (n.item.typ \in {"Hang", "Panic"})]]

scanner_next_item(sc) ==
    IF sc.last # <<>>
    THEN [item |-> sc.last[1], sc |-> [sc EXCEPT !.last = <<>>]]
    ELSE scanner_lexed(sc, next_item(sc.lexer))

scanner_backup(sc, it) == [sc EXCEPT !.last = <<it>>]

scanner_peek(sc) ==
    LET back(n) == [item |-> n.item, sc |-> scanner_backup(n.sc, n.item)]
    IN  back(scanner_next_item(sc))

scanner_accept_once(sc, typ) ==
    LET take(n) == IF n.item.typ = typ
                   THEN [ok |-> TRUE, sc |-> [n.sc EXCEPT !.curr = Append(@, n.item)]]
                   ELSE [ok |-> FALSE, sc |-> scanner_backup(n.sc, n.item)]
    IN  take(scanner_next_item(sc))

scanner_emit(sc, typ) ==
    [sc EXCEPT !.tokens = << Append(sc.tokens[1], Token(typ, sc.curr)) >>, !.curr = <<>>]

scanner_emit_error(sc, error) ==
    [sc EXCEPT !.tokens = << Append(sc.tokens[1],
                                    Token("Error", << TokenItem("Error", error, 0) >>)) >>,
               !.state = "None"]

\* In the scan functions n is the result of next_item(): the item and the
\* scanner after it.
scan_start(sc) ==
    LET on(n) ==
            CASE n.item.typ \in {"Hang", "Panic"} -> n.sc
              [] n.item.typ = "Package" -> [n.sc EXCEPT !.state = "Package"]
              [] n.item.typ = "Config" -> [n.sc EXCEPT !.state = "Section"]
              [] n.item.typ = "Error" -> scanner_emit_error(n.sc, n.item.val)
              [] n.item.typ = "Eof" -> [n.sc EXCEPT !.state = "None"]
              [] OTHER -> scanner_emit_error(n.sc, "expected package or config token")
    IN  on(scanner_next_item(sc))

\* A scan_package that yields a Package token without a name before the error.
scan_package_emit(sc) ==
    LET on(n) ==
            CASE n.item.typ \in {"Hang", "Panic"} -> n.sc
              [] n.item.typ = "String" ->
                   [scanner_emit([n.sc EXCEPT !.curr = Append(@, n.item)], "Package")
                      EXCEPT !.state = "Start"]
              [] n.item.typ = "Error" ->
                   scanner_emit_error(scanner_emit(n.sc, "Package"), n.item.val)
              [] OTHER -> scanner_emit_error(n.sc,
                             "expected string value while parsing package")
    IN  on(scanner_next_item(sc))

scan_package(sc) ==
    LET on(n) ==
            CASE n.item.typ \in {"Hang", "Panic"} -> n.sc
              [] n.item.typ = "String" ->
                   [scanner_emit([n.sc EXCEPT !.curr = Append(@, n.item)], "Package")
                      EXCEPT !.state = "Start"]
              [] n.item.typ = "Error" -> scanner_emit_error(n.sc, n.item.val)
              [] OTHER -> scanner_emit_error(n.sc,
                             "expected string value while parsing package")
    IN  on(scanner_next_item(sc))

\* scan_section once the section type is in curr: p is the result of peek().
scan_section_name(p) ==
    IF p.item.typ \in {"Hang", "Panic"} THEN p.sc
    ELSE IF p.item.typ = "String"
    THEN [scanner_emit(scanner_accept_once(p.sc, "String").sc, "Section")
            EXCEPT !.state = "Option"]
    ELSE [scanner_emit(p.sc, "Section") EXCEPT !.state = "Option"]

scan_section_type(n) ==
    CASE n.item.typ \in {"Hang", "Panic"} -> n.sc
      [] n.item.typ = "Ident" ->
           scan_section_name(scanner_peek([n.sc EXCEPT !.curr = Append(@, n.item)]))
      [] n.item.typ = "Error" -> scanner_emit_error(n.sc, n.item.val)
      [] OTHER -> scanner_emit_error(n.sc, "expected identifier while parsing config section")

scan_section(sc) == scan_section_type(scanner_next_item(sc))

scan_option(sc) ==
    LET on(n) ==
            CASE n.item.typ \in {"Hang", "Panic"} -> n.sc
              [] n.item.typ = "Option" -> [n.sc EXCEPT !.state = "OptionName"]
              [] n.item.typ = "List" -> [n.sc EXCEPT !.state = "ListName"]
              [] n.item.typ = "Error" -> scanner_emit_error(n.sc, n.item.val)
              [] OTHER -> [scanner_backup(n.sc, n.item) EXCEPT !.state = "Start"]
    IN  on(scanner_next_item(sc))

scan_option_name(sc) ==
    LET on(a) ==
            IF a.sc.diverged THEN a.sc
            ELSE IF a.ok THEN [a.sc EXCEPT !.state = "OptionValue"]
            ELSE scanner_emit_error(a.sc, "expected option name")
    IN  on(scanner_accept_once(sc, "Ident"))

scan_list_name(sc) ==
    LET on(a) ==
            IF a.sc.diverged THEN a.sc
            ELSE IF a.ok THEN [a.sc EXCEPT !.state = "ListValue"]
            ELSE scanner_emit_error(a.sc, "expected option name")
    IN  on(scanner_accept_once(sc, "Ident"))

scan_option_value(sc) ==
    LET on(n) ==
            CASE n.item.typ \in {"Hang", "Panic"} -> n.sc
              [] n.item.typ = "String" ->
                   [scanner_emit([n.sc EXCEPT !.curr = Append(@, n.item)], "Option")
                      EXCEPT !.state = "Option"]
              [] n.item.typ = "Error" -> scanner_emit_error(n.sc, n.item.val)
              [] OTHER -> scanner_emit_error(n.sc, "expected option value")
    IN  on(scanner_next_item(sc))

scan_list_value(sc) ==
    LET on(n) ==
            CASE n.item.typ \in {"Hang", "Panic"} -> n.sc
              [] n.item.typ = "String" ->
                   [scanner_emit([n.sc EXCEPT !.curr = Append(@, n.item)], "List")
                      EXCEPT !.state = "Option"]
              [] n.item.typ = "Error" -> scanner_emit_error(n.sc, n.item.val)
              [] OTHER -> scanner_emit_error(n.sc, "expected option value")
    IN  on(scanner_next_item(sc))

scanner_action(sc) ==
    CASE sc.state = "ListName" -> scan_list_name(sc)
      [] sc.state = "ListValue" -> scan_list_value(sc)
      [] sc.state = "Option" -> scan_option(sc)
      [] sc.state = "OptionName" -> scan_option_name(sc)
      [] sc.state = "OptionValue" -> scan_option_value(sc)
      [] sc.state = "Package" -> scan_package(sc)
      [] sc.state = "Section" -> scan_section(sc)
      [] sc.state = "Start" -> scan_start(sc)
      [] OTHER -> sc

scanner_stop(sc) ==
    IF sc.tokens = <<>>
    THEN [tok |-> <<>>, sc |-> sc]
    ELSE [tok |-> IF sc.tokens[1] # <<>> THEN << Head(sc.tokens[1]) >> ELSE <<>>,
          sc |-> [sc EXCEPT !.lexer = lexer_stop(sc.lexer).lx, !.tokens = <<>>]]

RECURSIVE scanner_next(_)
scanner_next(sc) ==
    IF sc.diverged THEN [tok |-> <<>>, sc |-> sc]
    ELSE IF sc.state # "None"
    THEN IF sc.tokens = <<>> THEN [tok |-> <<>>, sc |-> sc]
         ELSE IF sc.tokens[1] # <<>>
         THEN [tok |-> << Head(sc.tokens[1]) >>,
               sc |-> [sc EXCEPT !.tokens = << Tail(sc.tokens[1]) >>]]
         ELSE scanner_next(scanner_action(sc))
    ELSE scanner_stop(sc)

(***************************************************************************)
(* Tree model: UciOption (storage/uci/tree/uci_option/mod.rs), UciSection  *)
(* (tree/uci_section/mod.rs), UciConfig                                    *)
(* (storage/uci/tree/uci_config/mod.rs)                                    *)
(***************************************************************************)
UciOption_new(name, opt_type, values) ==
    [name |-> name, opt_type |-> opt_type, values |-> values]

set_values(opt, values) == [opt EXCEPT !.values = values]

set_type(opt, typ) == [opt EXCEPT !.opt_type = typ]

Range(seq) == {seq[i] : i \in DOMAIN seq}

merge_values(opt, values) ==
    IF opt.opt_type = "TypeOption"
    THEN set_values(opt, values)
    ELSE LET set == Range(opt.values)
         IN  [opt EXCEPT !.values = @ \o SelectSeq(values, LAMBDA v : v \notin set)]

UciSection_new(sec_type, name) == [name |-> name, sec_type |-> sec_type, options |-> <<>>]

\* Index of the first element of seq satisfying Test, 0 when there is none.
FirstIndex(seq, Test(_)) ==
    IF \E i \in DOMAIN seq : Test(seq[i])
    THEN CHOOSE i \in DOMAIN seq : Test(seq[i]) /\ \A j \in 1..(i - 1) : ~Test(seq[j])
    ELSE 0

RemoveAt(seq, i) == SubSeq(seq, 1, i - 1) \o SubSeq(seq, i + 1, Len(seq))

section_add(sec, option) == [sec EXCEPT !.options = Append(@, option)]

\* A merge that keeps the kind of the option it finds.
section_merge_samekind(sec, option) ==
    LET i == FirstIndex(sec.options, LAMBDA o : o.name = option.name)
    IN  IF i = 0 THEN [sec EXCEPT !.options = Append(@, option)]
        ELSE [sec EXCEPT !.options[i] = merge_values(@, option.values)]

\* A merge that appends the option without looking its name up.
section_merge_append(sec, option) == [sec EXCEPT !.options = Append(@, option)]

section_merge(sec, option) ==
    LET i == FirstIndex(sec.options, LAMBDA o : o.name = option.name)
    IN  IF i = 0 THEN section_add(sec, option)
        ELSE IF sec.options[i].opt_type = option.opt_type
        THEN [sec EXCEPT !.options[i] = merge_values(@, option.values)]
        ELSE [sec EXCEPT !.options[i] = set_values(set_type(@, option.opt_type), option.values)]

\* What _set_option_with_type does to the section it found.
section_set(sec, option_name, opt_type, values) ==
    LET i == FirstIndex(sec.options, LAMBDA o : o.name = option_name)
    IN  IF i # 0 THEN [sec EXCEPT !.options[i] = set_values(@, values)]
        ELSE section_add(sec, UciOption_new(option_name, opt_type, values))

\* Returns the section without the option and whether an option was removed.
section_del(sec, name) ==
    LET i == FirstIndex(sec.options, LAMBDA o : o.name = name)
    IN  IF i = 0 THEN [removed |-> FALSE, sec |-> sec]
        ELSE [removed |-> TRUE, sec |-> [sec EXCEPT !.options = RemoveAt(@, i)]]

\* Option<&UciOption>
section_get(sec, name) ==
    LET i == FirstIndex(sec.options, LAMBDA o : o.name = name)
    IN  IF i = 0 THEN <<>> ELSE << sec.options[i] >>

UciConfig_new(name) == [name |-> name, pkg_name |-> <<>>, sections |-> <<>>, modified |-> FALSE]

\* Positions (in cfg.sections) of the sections of type sec_type, in document order.
TypePositions(cfg, sec_type) ==
    SelectSeq([i \in DOMAIN cfg.sections |-> i], LAMBDA i : cfg.sections[i].sec_type = sec_type)

_count(cfg, sec_type) == Len(TypePositions(cfg, sec_type))

\* Option<usize>: position, among the sections of the same type, of the first
\* section that is equal (name, type and options) to the given one.
_index(cfg, section) ==
    LET ps == TypePositions(cfg, section.sec_type)
        k == FirstIndex(ps, LAMBDA i : cfg.sections[i] = section)
    IN  IF k = 0 THEN <<>> ELSE << k - 1 >>

RECURSIVE usize_to_string(_)
usize_to_string(n) ==
    LET d == <<"0","1","2","3","4","5","6","7","8","9">>[(n % 10) + 1]
    IN  IF n < 10 THEN << d >> ELSE Append(usize_to_string(n \div 10), d)

\* Option<String>: None stands for the panic of _index(section).unwrap().
get_section_name(cfg, section) ==
    LET format(idx) ==
            IF idx = <<>> THEN <<>>
            ELSE << <<"@">> \o section.sec_type \o <<"[">> \o usize_to_string(idx[1])
                    \o <<"]">> >>
    IN  IF section.name # <<>> THEN << section.name >> ELSE format(_index(cfg, section))

DigitValue(c) == CHOOSE d \in 0..9 : <<"0","1","2","3","4","5","6","7","8","9">>[d + 1] = c

I32_MAX == 2147483647

I32_MIN == -I32_MAX - 1

\* Digit by digit accumulation with checked_mul / checked_add (checked_sub for a
\* negative number); Option<i32>, None on overflow.
RECURSIVE accumulate_i32(_, _, _)
accumulate_i32(ds, acc, negative) ==
    LET d == DigitValue(Head(ds))
    IN  IF ds = <<>> THEN << acc >>
        ELSE IF negative
        THEN IF acc < (I32_MIN + d + 9) \div 10 THEN <<>>
             ELSE accumulate_i32(Tail(ds), acc * 10 - d, negative)
        ELSE IF acc > (I32_MAX - d) \div 10 THEN <<>>
             ELSE accumulate_i32(Tail(ds), acc * 10 + d, negative)

\* str::parse::<i32>: Option<i32>, None for a ParseIntError.
parse_i32(s) ==
    LET signed == s # <<>> /\ s[1] \in {"+", "-"}
        ds == IF signed THEN Tail(s) ELSE s
    IN  IF ds = <<>> \/ \E i \in DOMAIN ds : ds[i] \notin Digits THEN <<>>
        ELSE accumulate_i32(ds, 0, signed /\ s[1] = "-")

\* The text of the ParseIntError of str::parse::<i32>: each step looks at the
\* digit before it looks at the overflow.
RECURSIVE accumulate_error(_, _, _)
accumulate_error(ds, acc, negative) ==
    LET d == DigitValue(Head(ds))
    IN  IF ds = <<>> THEN ""
        ELSE IF Head(ds) \notin Digits THEN "invalid digit found in string"
        ELSE IF negative
        THEN IF acc < (I32_MIN + d + 9) \div 10 THEN "number too small to fit in target type"
             ELSE accumulate_error(Tail(ds), acc * 10 - d, negative)
        ELSE IF acc > (I32_MAX - d) \div 10 THEN "number too large to fit in target type"
             ELSE accumulate_error(Tail(ds), acc * 10 + d, negative)

parse_i32_error(s) ==
    LET signed == s # <<>> /\ s[1] \in {"+", "-"}
        ds == IF signed THEN Tail(s) ELSE s
    IN  IF s = <<>> THEN "cannot parse integer from empty string"
        ELSE IF ds = <<>> THEN "invalid digit found in string"
        ELSE accumulate_error(ds, 0, signed /\ s[1] = "-")

\* The scan loop of unmangle_section_name from byte offset i (0-based) on;
\* bra is the offset of the last '[' seen so far.
RECURSIVE unmangle_loop(_, _, _)
unmangle_loop(bytes, i, bra) ==
    LET ket == Len(bytes) - 1
        r == bytes[i + 1]
    IN  IF i > ket THEN [err |-> "", bra |-> bra]
        ELSE IF i # 0 /\ r = "@"
        THEN [err |-> "invalid syntax: multiple @ signs found", bra |-> bra]
        ELSE IF bra > 0 /\ r = "["
        THEN [err |-> "invalid syntax: multiple open brackets found", bra |-> bra]
        ELSE IF i # ket /\ r = "]"
        THEN [err |-> "invalid syntax: multiple closed brackets found", bra |-> bra]
        ELSE unmangle_loop(bytes, i + 1, IF r = "[" THEN i ELSE bra)

\* Result<(String, i32)> as [ok, err, sec_type, sec_index]; panic stands for
\* the unwrap() of from_utf8 failing on a slice that ends inside a rune.
unmangle_section_name(section_name) ==
    LET bytes_section_name == as_bytes(section_name)
        len == Len(bytes_section_name)
        ket == len - 1
        scan == unmangle_loop(bytes_section_name, 0, 0)
        bra == scan.bra
        sec_type == str_get(bytes_section_name, 1, bra)
        digits == str_get(bytes_section_name, bra + 1, ket)
        Err(m) == [ok |-> FALSE, err |-> m, sec_type |-> <<>>, sec_index |-> 0,
                   panic |-> FALSE]
        index(sec_index) ==
            IF sec_index = <<>>
            THEN Err("invalid syntax: index must be numeric: " \o parse_i32_error(digits[1]))
            ELSE [ok |-> TRUE, err |-> "", sec_type |-> sec_type[1],
                  sec_index |-> sec_index[1], panic |-> FALSE]
    IN  IF len < 5
        THEN Err("implausible section selector: must be at least 5 characters long")
        ELSE IF section_name[1] # "@"
        THEN Err("invalid syntax: section selector must start with @ sign")
        ELSE IF scan.err # "" THEN Err(scan.err)
        ELSE IF bra = 0 \/ bra >= ket
        THEN Err("invalid syntax: section selector must have format '@type[index]'")
        ELSE IF sec_type = <<>> \/ digits = <<>>
        THEN [ok |-> FALSE, err |-> "", sec_type |-> <<>>, sec_index |-> 0, panic |-> TRUE]
        ELSE index(parse_i32(digits[1]))

\* Result<Option<position in cfg.sections>>: pos = 0 is Ok(None).
_get_named(cfg, name) ==
    [ok |-> TRUE, err |-> "", pos |-> FirstIndex(cfg.sections, LAMBDA s : s.name = name),
     panic |-> FALSE]

\* A positional lookup that takes the index as it is written.
_get_unnamed_forward(cfg, name) ==
    LET nth(u, count) ==
            IF u.sec_index < 0 \/ u.sec_index >= count
            THEN [ok |-> FALSE, err |-> "invalid name: index out of bounds", pos |-> 0,
                  panic |-> FALSE]
            ELSE [ok |-> TRUE, err |-> "", panic |-> FALSE,
                  pos |-> TypePositions(cfg, u.sec_type)[u.sec_index + 1]]
        select(u) ==
            IF ~u.ok THEN [ok |-> FALSE, err |-> u.err, pos |-> 0, panic |-> u.panic]
            ELSE nth(u, _count(cfg, u.sec_type))
    IN  select(unmangle_section_name(name))

_get_unnamed(cfg, name) ==
    LET nth(u, count) ==
            LET index == IF u.sec_index >= 0 THEN u.sec_index ELSE count + u.sec_index
            IN  IF index < 0 \/ index >= count
                THEN [ok |-> FALSE, err |-> "invalid name: index out of bounds", pos |-> 0,
                      panic |-> FALSE]
                ELSE [ok |-> TRUE, err |-> "", panic |-> FALSE,
                      pos |-> TypePositions(cfg, u.sec_type)[index + 1]]
        select(u) ==
            IF ~u.ok THEN [ok |-> FALSE, err |-> u.err, pos |-> 0, panic |-> u.panic]
            ELSE nth(u, _count(cfg, u.sec_type))
    IN  select(unmangle_section_name(name))

config_get(cfg, name) ==
    IF name # <<>> /\ name[1] = "@" THEN _get_unnamed(cfg, name) ELSE _get_named(cfg, name)

config_add(cfg, section) == [cfg EXCEPT !.sections = Append(@, section)]

RECURSIVE MergeOptions(_, _)
MergeOptions(sec, options) ==
    IF options = <<>> THEN sec ELSE MergeOptions(section_merge(sec, Head(options)), Tail(options))

\* [panic, cfg]: panic stands for one of the unwrap() calls of merge failing.
config_merge(cfg, section) ==
    LET into(target) ==
            IF ~target.ok \/ target.pos = 0 THEN [panic |-> TRUE, cfg |-> cfg]
            ELSE [panic |-> FALSE,
                  cfg |-> [cfg EXCEPT !.sections[target.pos] = MergeOptions(@, section.options)]]
        named(incoming) ==
            IF cfg.sections = <<>> THEN [panic |-> FALSE, cfg |-> config_add(cfg, section)]
            ELSE IF incoming = <<>> THEN [panic |-> TRUE, cfg |-> cfg]
            ELSE IF \E i \in DOMAIN cfg.sections :
                        get_section_name(cfg, cfg.sections[i]) = incoming
            THEN into(config_get(cfg, incoming[1]))
            ELSE [panic |-> FALSE, cfg |-> config_add(cfg, section)]
    IN  named(get_section_name(cfg, section))

config_del(cfg, name) ==
    LET idx == FirstIndex(cfg.sections, LAMBDA s : get_section_name(cfg, s) = << name >>)
    IN  IF idx = 0 THEN cfg ELSE [cfg EXCEPT !.sections = RemoveAt(@, idx)]

set_pkg_name(cfg, name) == [cfg EXCEPT !.pkg_name = name]

(***************************************************************************)
(* Parser (storage/uci/parser/mod.rs, uci_parse).  The result kind is Ok,  *)
(* Err (msg is the wrapped token message), Panic (an unwrap() or index     *)
(* failed) or Hang (the lexer never returns the next item).                *)
(***************************************************************************)
ParseResult(kind, cfg, msg) == [kind |-> kind, cfg |-> cfg, msg |-> msg]

\* The flush of the pending section: merge when type and name are non-empty.
flush_section(cfg, sec) ==
    IF sec = <<>> THEN [panic |-> FALSE, cfg |-> cfg]
    ELSE IF sec[1].sec_type # <<>> /\ sec[1].name # <<>> THEN config_merge(cfg, sec[1])
    ELSE [panic |-> FALSE, cfg |-> config_add(cfg, sec[1])]

parse_option(sec, name, val) ==
    LET i == FirstIndex(sec.options, LAMBDA o : o.name = name)
    IN  IF i # 0 THEN [sec EXCEPT !.options[i] = set_values(@, << val >>)]
        ELSE section_add(sec, UciOption_new(name, "TypeOption", << val >>))

parse_list(sec, name, val) ==
    LET i == FirstIndex(sec.options, LAMBDA o : o.name = name)
    IN  IF i # 0 THEN [sec EXCEPT !.options[i] = merge_values(@, << val >>)]
        ELSE section_add(sec, UciOption_new(name, "TypeList", << val >>))

RECURSIVE parse_loop(_, _, _)

\* End of the tokens: the pending section has been flushed.
parse_end(flushed, cfg) ==
    IF flushed.panic THEN ParseResult("Panic", cfg, "") ELSE ParseResult("Ok", flushed.cfg, "")

\* A Section token: the pending section has been flushed, a new one starts.
parse_section(flushed, sc, cfg, tok) ==
    IF flushed.panic \/ tok.items = <<>> THEN ParseResult("Panic", cfg, "")
    ELSE IF Len(tok.items) = 2
    THEN parse_loop(sc, flushed.cfg, << UciSection_new(tok.items[1].val, tok.items[2].val) >>)
    ELSE parse_loop(sc, flushed.cfg, << UciSection_new(tok.items[1].val, <<>>) >>)

\* The body of the loop for the result n of scanner.next().
parse_token(n, cfg, sec) ==
    LET tok == n.tok[1]
    IN  IF n.sc.diverged
        THEN ParseResult(IF n.sc.lexer.state = "Panic" THEN "Panic" ELSE "Hang", cfg, "")
        ELSE IF n.tok = <<>> THEN parse_end(flush_section(cfg, sec), cfg)
        ELSE IF tok.typ = "Error"
        THEN IF tok.items = <<>> THEN ParseResult("Panic", cfg, "")
             ELSE ParseResult("Err", cfg, "parse error: " \o tok.items[1].val)
        ELSE IF tok.typ = "Package"
        THEN IF tok.items = <<>> THEN ParseResult("Panic", cfg, "")
             ELSE parse_loop(n.sc, set_pkg_name(cfg, tok.items[1].val), sec)
        ELSE IF tok.typ = "Section" THEN parse_section(flush_section(cfg, sec), n.sc, cfg, tok)
        ELSE IF Len(tok.items) < 2 \/ sec = <<>> THEN ParseResult("Panic", cfg, "")
        ELSE IF tok.typ = "Option"
        THEN parse_loop(n.sc, cfg, << parse_option(sec[1], tok.items[1].val, tok.items[2].val) >>)
        ELSE parse_loop(n.sc, cfg, << parse_list(sec[1], tok.items[1].val, tok.items[2].val) >>)

parse_loop(sc, cfg, sec) == parse_token(scanner_next(sc), cfg, sec)

uci_parse(name, input) == parse_loop(Scanner_new(name, input), UciConfig_new(name), <<>>)

(***************************************************************************)
(* Serialization (UciConfig::write_in).  write_in_chunks is the sequence   *)
(* of the strings handed to the BufWriter: write_fmt hands over each       *)
(* literal piece and each argument of its format string separately.  The   *)
(* serialization is their concatenation.  write_in panics on               *)
(* opt.values[0] of a TypeOption option without values, before anything of *)
(* that line is written.                                                   *)
(***************************************************************************)
RECURSIVE Concat(_)
Concat(seqs) == IF seqs = <<>> THEN <<>> ELSE Head(seqs) \o Concat(Tail(seqs))

NL == <<"\n">>

SQ == <<"'">>

option_line(kw, name, value) == << <<"\t">> \o kw \o <<" ">>, name, <<" ">> \o SQ, value, SQ \o NL >>

option_chunks(opt) ==
    IF opt.opt_type = "TypeOption"
    THEN option_line(KW_OPTION, opt.name, opt.values[1])
    ELSE Concat([i \in DOMAIN opt.values |-> option_line(KW_LIST, opt.name, opt.values[i])])

option_panics(opt) == opt.opt_type = "TypeOption" /\ opt.values = <<>>

section_header(sec) ==
    IF sec.name = <<>>
    THEN << NL \o KW_CONFIG \o <<" ">>, sec.sec_type, NL >>
    ELSE << NL \o KW_CONFIG \o <<" ">>, sec.sec_type, <<" ">> \o SQ, sec.name, SQ \o NL >>

\* The chunks written before the first panicking option (all of them if none panics).
RECURSIVE options_chunks(_)
options_chunks(options) ==
    IF options = <<>> \/ option_panics(Head(options)) THEN <<>>
    ELSE option_chunks(Head(options)) \o options_chunks(Tail(options))

section_panics(sec) == \E i \in DOMAIN sec.options : option_panics(sec.options[i])

RECURSIVE sections_chunks(_)
sections_chunks(sections) ==
    IF sections = <<>> THEN <<>>
    ELSE section_header(Head(sections)) \o options_chunks(Head(sections).options)
         \o (IF section_panics(Head(sections)) THEN <<>> ELSE sections_chunks(Tail(sections)))

write_in_panics(cfg) == \E i \in DOMAIN cfg.sections : section_panics(cfg.sections[i])

write_in_chunks(cfg) ==
    (IF cfg.pkg_name # <<>>
     THEN << NL \o KW_PACKAGE \o <<" ">> \o SQ, cfg.pkg_name, SQ \o NL >>
     ELSE <<>>)
    \o sections_chunks(cfg.sections)
    \o (IF write_in_panics(cfg) THEN <<>> ELSE << NL >>)

\* The text a successful write_in produces.
serialize(cfg) == Concat(write_in_chunks(cfg))

(***************************************************************************)
(* Bounds and input alphabet of the store model                            *)
(***************************************************************************)
\* Number of store operations in a run.
MaxSteps == 3

\* Capacity of the BufWriter of write_in, in bytes: BufWriter::new gives the
\* buffer the default capacity of the standard library.
BufCap == 8192

\* Largest number of bytes the file system accepts for a temporary file in a
\* run in which writing to it fails.
MaxQuota == 12

Names == {"a", "b"}

TypeT == <<"t">>

TypeU == <<"u">>

NameS == <<"s">>

OptO == <<"o">>

ValV == <<"v">>

PkgQ == <<"q">>

ValW == <<"w">>

\* "@t[-1]"
SelLast == <<"@", "t", "[", "-", "1", "]">>

\* "@t[0]"
SelFirst == <<"@", "t", "[", "0", "]">>

\* "@t[0é": the last character is a rune of two bytes.
SelCut == <<"@", "t", "[", "0", "U+00E9">>

Selectors == {NameS, SelLast}

ValueLists == {<<>>, << ValV >>, << ValV, ValW >>}

AddInputs ==
    {<< TypeT, <<>> >>, << TypeT, NameS >>, << TypeU, NameS >>, << TypeU, SelFirst >>,
     << TypeT, SelCut >>}

RevertInputs == {<< "a" >>, << "b" >>, << "a", "b" >>}

\* # c
\* config t "s"
\*  option o v
\* config t
\*  list o 'v'
\*  list o 'w'
FileA ==
    <<"#", " ", "c", "\n">>
    \o KW_CONFIG \o <<" ", "t", " ", "\"", "s", "\"", "\n">>
    \o <<" ">> \o KW_OPTION \o <<" ", "o", " ", "v", "\n">>
    \o KW_CONFIG \o <<" ", "t", "\n">>
    \o <<" ">> \o KW_LIST \o <<" ", "o", " ", "'", "v", "'", "\n">>
    \o <<" ">> \o KW_LIST \o <<" ", "o", " ", "'", "w", "'", "\n">>

\* config t 's'
\* x
FileBad == KW_CONFIG \o <<" ", "t", " ", "'", "s", "'", "\n", "x", "\n">>

(***************************************************************************)
(* std::io::BufWriter over the temporary file, as used by write_in.        *)
(* quota is an Option: the number of bytes the file accepts before a write *)
(* fails (None: every write succeeds).  Only byte counts matter: the file  *)
(* holds a prefix of the serialization.                                    *)
(***************************************************************************)
\* A byte that is not part of a well-formed UTF-8 sequence, in the content of
\* a file.
InvalidByte == "0xFF"

\* The first n bytes of s; a rune that is cut leaves bytes that are no UTF-8.
byte_prefix(s, n) ==
    LET cut(bytes, runes) ==
            IF is_char_boundary(bytes, n) THEN runes
            ELSE [runes EXCEPT ![Len(runes)] = InvalidByte]
        first(bytes) ==
            IF n >= Len(bytes) THEN s ELSE cut(bytes, from_utf8(SubSeq(bytes, 1, n)))
    IN  first(as_bytes(s))

Fits(quota, n) == quota = <<>> \/ n <= quota[1]

\* One write of n buffered bytes to a file that holds `written` bytes.
file_write(quota, written, n) ==
    IF n = 0 \/ Fits(quota, written + n)
    THEN [ok |-> TRUE, written |-> written + n]
    ELSE [ok |-> FALSE, written |-> quota[1]]

\* BufWriter::write_all for each chunk in turn; [ok, buffered, written].  A
\* flush that fails has removed from the buffer the bytes the file accepted.
RECURSIVE bufwriter_write_all(_, _, _, _, _)
bufwriter_write_all(chunks, cap, quota, buffered, written) ==
    LET len == str_len(Head(chunks))
        flushed == IF len > cap - buffered
                   THEN file_write(quota, written, buffered)
                   ELSE [ok |-> TRUE, written |-> written]
        direct == file_write(quota, flushed.written, len)
        kept == IF len > cap - buffered THEN 0 ELSE buffered
    IN  IF chunks = <<>> THEN [ok |-> TRUE, buffered |-> buffered, written |-> written]
        ELSE IF len < cap - buffered
        THEN bufwriter_write_all(Tail(chunks), cap, quota, buffered + len, written)
        ELSE IF ~flushed.ok
        THEN [ok |-> FALSE, buffered |-> buffered - (flushed.written - written),
              written |-> flushed.written]
        ELSE IF len >= cap
        THEN IF direct.ok
             THEN bufwriter_write_all(Tail(chunks), cap, quota, kept, direct.written)
             ELSE [ok |-> FALSE, buffered |-> kept, written |-> direct.written]
        ELSE bufwriter_write_all(Tail(chunks), cap, quota, kept + len, flushed.written)

\* Drop of the BufWriter: the buffer is flushed and an error is ignored.
bufwriter_drop(quota, w) == file_write(quota, w.written, w.buffered).written

\* UciConfig::write_in on a fresh temporary file: [res, data], data being the
\* content of the temporary file once the BufWriter has been dropped.
write_in(cfg, quota) ==
    LET result(w) ==
            [res |-> IF ~w.ok THEN "Err" ELSE IF write_in_panics(cfg) THEN "Panic" ELSE "Ok",
             data |-> byte_prefix(serialize(cfg), bufwriter_drop(quota, w))]
    IN  result(bufwriter_write_all(write_in_chunks(cfg), BufCap, quota, 0, 0))

(***************************************************************************)
(* Store (UciTree, storage/uci/tree/mod.rs).  The store operations are     *)
(* operators on the cache (a function from config names to configs) and    *)
(* the files of the store directory (a function from config names to file  *)
(* contents).  Each returns a record with the result res (Ok, Err, Panic,  *)
(* Hang), the message msg, the cache configs after the call and read,      *)
(* which tells whether the backing file was read.  Opening a file fails    *)
(* exactly when it does not exist; removing a temporary file never fails.  *)
(***************************************************************************)
Put(map, key, value) == [k \in DOMAIN map \cup {key} |-> IF k = key THEN value ELSE map[k]]

Remove(map, key) == [k \in DOMAIN map \ {key} |-> map[k]]

Reply(res, msg, cfgs, read) == [res |-> res, msg |-> msg, configs |-> cfgs, read |-> read]

\* The text of a String, for the messages built with format!.
RECURSIVE Str(_)
Str(s) == IF s = <<>> THEN "" ELSE Head(s) \o Str(Tail(s))

\* What the store directory holds under a name that is a sub-directory.
Directory == << "directory" >>

\* File::open fails when nothing has the name; it succeeds on a directory
\* (dir.join("") is the store directory itself) and read_to_string then
\* fails, as it does on a file that is not UTF-8.
_load_config(cfgs, files, name) ==
    LET insert(parsed) ==
            IF parsed.kind = "Ok" THEN Reply("Ok", "", Put(cfgs, name, parsed.cfg), TRUE)
            ELSE Reply(parsed.kind, parsed.msg, cfgs, TRUE)
    IN  IF name = "" THEN Reply("Err", "Is a directory (os error 21)", cfgs, FALSE)
        ELSE IF name \notin DOMAIN files
        THEN Reply("Err", "No such file or directory (os error 2)", cfgs, FALSE)
        ELSE IF files[name] = Directory
        THEN Reply("Err", "Is a directory (os error 21)", cfgs, FALSE)
        ELSE IF InvalidByte \in Range(files[name])
        THEN Reply("Err", "stream did not contain valid UTF-8", cfgs, TRUE)
        ELSE insert(uci_parse(name, files[name]))

\* A load that reads the file even when the config is cached.
load_config_again(cfgs, files, name) == _load_config(cfgs, files, name)

load_config(cfgs, files, name) ==
    IF name \in DOMAIN cfgs THEN Reply("Err", name \o " already loaded", cfgs, FALSE)
    ELSE _load_config(cfgs, files, name)

\* A forced load that keeps an entry that is already cached.
load_config_force_once(cfgs, files, name) ==
    IF name \in DOMAIN cfgs THEN Reply("Ok", "", cfgs, FALSE) ELSE _load_config(cfgs, files, name)

load_config_force(cfgs, files, name) == _load_config(cfgs, files, name)

\* _ensure_config_loaded and _ensure_config_loaded_mut
_ensure_config_loaded(cfgs, files, config_name) ==
    IF config_name \in DOMAIN cfgs THEN Reply("Ok", "", cfgs, FALSE)
    ELSE load_config(cfgs, files, config_name)

\* A revert that evicts only the configs without unsaved changes.
revert_clean(cfgs, config_names) ==
    [n \in {m \in DOMAIN cfgs : m \notin Range(config_names) \/ cfgs[m].modified} |-> cfgs[n]]

RECURSIVE revert(_, _)
revert(cfgs, config_names) ==
    IF config_names = <<>> THEN cfgs
    ELSE revert(Remove(cfgs, Head(config_names)), Tail(config_names))

\* In the operations below e is the result of _ensure_config_loaded(_mut) and
\* g the result of UciConfig::get(_mut).

\* [res, msg, configs, read, out]: out is the Option<Vec<&UciSection>> returned.
get_sections(cfgs, files, config_name, section_type) ==
    LET filter(e) ==
            [res |-> IF e.res = "Err" THEN "Ok" ELSE e.res, msg |-> "", configs |-> e.configs,
             read |-> e.read,
             out |-> IF e.res = "Ok"
                     THEN << SelectSeq(e.configs[config_name].sections,
                                       LAMBDA sec : sec.sec_type = section_type) >>
                     ELSE <<>>]
    IN  filter(_ensure_config_loaded(cfgs, files, config_name))

\* Result<Option<&UciOption>> as [res, msg, out]
_lookup_option(cfgs, config_name, section_name, option_name) ==
    LET found(g) ==
            IF g.panic THEN [res |-> "Panic", msg |-> "", out |-> <<>>]
            ELSE IF ~g.ok THEN [res |-> "Err", msg |-> g.err, out |-> <<>>]
            ELSE IF g.pos = 0 THEN [res |-> "Ok", msg |-> "", out |-> <<>>]
            ELSE [res |-> "Ok", msg |-> "",
                  out |-> section_get(cfgs[config_name].sections[g.pos], option_name)]
    IN  IF config_name \notin DOMAIN cfgs THEN [res |-> "Ok", msg |-> "", out |-> <<>>]
        ELSE found(config_get(cfgs[config_name], section_name))

\* Result<&Vec<String>> as [res, msg, out]
_lookup_values(cfgs, config_name, section_name, option_name) ==
    LET values(o) ==
            IF o.res \in {"Err", "Panic"} THEN o
            ELSE IF o.out = <<>>
            THEN [res |-> "Err",
                  msg |-> "values of " \o Str(section_name) \o "." \o Str(option_name)
                              \o " not found",
                  out |-> <<>>]
            ELSE [res |-> "Ok", msg |-> "", out |-> << o.out[1].values >>]
    IN  values(_lookup_option(cfgs, config_name, section_name, option_name))

\* Takes &self: the cache is read, never filled.  The second lookup is the one
\* the source makes when the first returns Err.
get_option_value(cfgs, config_name, section_type_name, option_name) ==
    LET again(first) ==
            IF first.res \in {"Ok", "Panic"} THEN first
            ELSE _lookup_values(cfgs, config_name, section_type_name, option_name)
    IN  again(_lookup_values(cfgs, config_name, section_type_name, option_name))

\* Result<Option<String>> as [res, msg, out]; Panic stands for
\* values.last().unwrap() on an empty list.
get_option_last_value(cfgs, config_name, section_type_name, option_name) ==
    LET last_of(r) ==
            IF r.res # "Ok" THEN r
            ELSE IF r.out[1] = <<>> THEN [res |-> "Panic", msg |-> "", out |-> <<>>]
            ELSE [res |-> "Ok", msg |-> "", out |-> << r.out[1][Len(r.out[1])] >>]
    IN  last_of(get_option_value(cfgs, config_name, section_type_name, option_name))

_set_option_with_type(cfgs, files, config_name, section_name, option_name, opt_type, values) ==
    LET store(sec, i) ==
            IF i # 0 THEN [sec EXCEPT !.options[i] = set_values(@, values)]
            ELSE section_add(sec, UciOption_new(option_name, opt_type, values))
        set(e, g) ==
            IF g.panic THEN Reply("Panic", "", e.configs, e.read)
            ELSE IF ~g.ok THEN Reply("Err", g.err, e.configs, e.read)
            ELSE IF g.pos = 0
            THEN Reply("Err", "section '" \o Str(section_name) \o "' not found",
                       e.configs, e.read)
            ELSE Reply("Ok", "",
                       [e.configs EXCEPT ![config_name].sections[g.pos] =
                            store(@, FirstIndex(@.options, LAMBDA o : o.name = option_name))],
                       e.read)
        loaded(e) ==
            IF e.res # "Ok" THEN e ELSE set(e, config_get(e.configs[config_name], section_name))
    IN  loaded(_ensure_config_loaded(cfgs, files, config_name))

set_option_values(cfgs, files, config_name, section_type_name, option_name, values) ==
    _set_option_with_type(cfgs, files, config_name, section_type_name, option_name,
                          IF Len(values) > 1 THEN "TypeList" ELSE "TypeOption", values)

del_option(cfgs, files, config_name, section_type_name, option_name) ==
    LET del(e, g, d) ==
            Reply("Ok", "",
                  [e.configs EXCEPT ![config_name].sections[g.pos] = d.sec,
                                    ![config_name].modified = d.removed],
                  e.read)
        find(e, g) ==
            IF g.panic THEN Reply("Panic", "", e.configs, e.read)
            ELSE IF ~g.ok THEN Reply("Err", g.err, e.configs, e.read)
            ELSE IF g.pos = 0 THEN Reply("Ok", "", e.configs, e.read)
            ELSE del(e, g, section_del(e.configs[config_name].sections[g.pos], option_name))
        loaded(e) ==
            IF e.res # "Ok" THEN e
            ELSE find(e, config_get(e.configs[config_name], section_type_name))
    IN  loaded(_ensure_config_loaded(cfgs, files, config_name))

\* A config that cannot be loaded is replaced by a new one, which is in the
\* cache before the section is looked up.
add_section(cfgs, files, config_name, section_type, section_name) ==
    LET add(e, cfg) ==
            Reply("Ok", "",
                  Put(e.configs, config_name,
                      [config_add(cfg, UciSection_new(section_type, section_name))
                           EXCEPT !.modified = TRUE]),
                  e.read)
        named(e, cfg, g) ==
            IF g.panic THEN Reply("Panic", "", Put(e.configs, config_name, cfg), e.read)
            ELSE IF g.ok /\ g.pos # 0
            THEN IF cfg.sections[g.pos].sec_type # section_type
                 THEN Reply("Err",
                            "type mismatch for " \o config_name \o "." \o Str(section_name)
                                \o ", got " \o Str(cfg.sections[g.pos].sec_type)
                                \o ", want " \o Str(section_type),
                            Put(e.configs, config_name, cfg), e.read)
                 ELSE Reply("Ok", "", Put(e.configs, config_name, cfg), e.read)
            ELSE add(e, cfg)
        on(e, cfg) ==
            IF section_name = <<>> THEN add(e, cfg)
            ELSE named(e, cfg, config_get(cfg, section_name))
        loaded(e) ==
            IF e.res \in {"Panic", "Hang"} THEN e
            ELSE IF e.res = "Err"
            THEN on(e, [UciConfig_new(config_name) EXCEPT !.modified = TRUE])
            ELSE on(e, e.configs[config_name])
    IN  loaded(_ensure_config_loaded(cfgs, files, config_name))

set_config_package_name(cfgs, config_name, package_name) ==
    IF config_name \in DOMAIN cfgs
    THEN Reply("Ok", "", [cfgs EXCEPT ![config_name] = set_pkg_name(@, package_name)], FALSE)
    ELSE Reply("Err", "config not found", cfgs, FALSE)

del_section(cfgs, files, config_name, section_type_name) ==
    LET del(e) ==
            IF e.res # "Ok" THEN e
            ELSE Reply("Ok", "",
                       [e.configs EXCEPT ![config_name] =
                            [config_del(@, section_type_name) EXCEPT !.modified = TRUE]],
                       e.read)
    IN  del(_ensure_config_loaded(cfgs, files, config_name))

(***************************************************************************)
(* Saving.  A fault names the I/O step of one _save_config call that the   *)
(* environment makes fail: creating the temporary file, writing to it      *)
(* (the file accepts quota bytes), metadata, set_permissions, sync_all or  *)
(* the rename of persist.                                                  *)
(***************************************************************************)
Fault(step, quota) == [step |-> step, quota |-> quota]

NoFault == Fault("none", <<>>)

AfterWrite == {"metadata", "set_permissions", "sync_all", "persist"}

Quotas == {0, MaxQuota, 3 * MaxQuota}

Faults ==
    {Fault(step, <<>>) : step \in {"create"} \cup AfterWrite}
    \cup {Fault("write", << q >>) : q \in Quotas}

\* [res, file, failed]: file is the Option of the content renamed over the
\* canonical file; failed tells whether an I/O step of the call failed.  In
\* every branch the temporary file is gone when the call returns: it was never
\* created, or removed by close() after a failed write_in, or removed by the
\* Drop of TempFile after a panic or a failed later step, or renamed.
_save_config(config, fault) ==
    LET finish(w, short) ==
            IF w.res = "Panic" THEN [res |-> "Panic", file |-> <<>>, failed |-> short]
            ELSE IF w.res = "Err" THEN [res |-> "Err", file |-> <<>>, failed |-> TRUE]
            ELSE IF fault.step \in AfterWrite
            THEN [res |-> "Err", file |-> <<>>, failed |-> TRUE]
            ELSE [res |-> "Ok", file |-> << w.data >>, failed |-> short]
        written(w) == finish(w, w.data # serialize(config))
    IN  IF fault.step = "create" THEN [res |-> "Err", file |-> <<>>, failed |-> TRUE]
        ELSE written(write_in(config, fault.quota))

\* The try_for_each of commit over the modified configs, visited in the given
\* order, the k-th visit suffering the fault (k = 0: none does).
\* [res, files, saved, failed]: saved lists the configs renamed into place,
\* failed the configs for which an I/O step failed.
RECURSIVE save_each(_, _, _, _, _, _, _)

save_next(cfgs, files, order, i, k, fault, acc, r, failed) ==
    IF r.res # "Ok"
    THEN [res |-> r.res, files |-> files, saved |-> acc.saved, failed |-> failed]
    ELSE save_each(cfgs, Put(files, order[i], r.file[1]), order, i + 1, k, fault,
                   [acc EXCEPT !.saved = Append(@, order[i]), !.failed = failed])

save_one(cfgs, files, order, i, k, fault, acc, r) ==
    save_next(cfgs, files, order, i, k, fault, acc, r,
              IF r.failed THEN Append(acc.failed, order[i]) ELSE acc.failed)

save_each(cfgs, files, order, i, k, fault, acc) ==
    IF i > Len(order) THEN [acc EXCEPT !.files = files]
    ELSE save_one(cfgs, files, order, i, k, fault, acc,
                  _save_config(cfgs[order[i]], IF i = k THEN fault ELSE NoFault))

\* The modified configs in the orders in which HashMap::iter may yield them.
Orders(cfgs) ==
    LET M == {n \in DOMAIN cfgs : cfgs[n].modified}
    IN  {o \in [1..Cardinality(M) -> M] : \A i, j \in DOMAIN o : o[i] = o[j] => i = j}

\* [res, configs, files, saved, failed]
commit(cfgs, files, order, k, fault) ==
    LET clear(r) ==
            [res |-> r.res, files |-> r.files, saved |-> r.saved, failed |-> r.failed,
             configs |-> IF r.res = "Ok"
                         THEN [n \in DOMAIN cfgs |-> [cfgs[n] EXCEPT !.modified = FALSE]]
                         ELSE cfgs]
    IN  clear(save_each(cfgs, files, order, 1, k, fault,
                        [res |-> "Ok", files |-> files, saved |-> <<>>, failed |-> <<>>]))

(***************************************************************************)
(* State of a store and of its directory                                   *)
(*   configs  the HashMap of cached configs                                *)
(*   disk     the files of the store directory, by config name             *)
(*   last     the last call: operation, config name (names for revert and  *)
(*            commit), result, message, whether the backing file was read, *)
(*            the value returned, for commit the fault injected, the       *)
(*            configs renamed into place, those among them that had no     *)
(*            file before and the configs with a failed I/O step,          *)
(*            args: section, option and values of a set_option_values,     *)
(*            cached: whether the config was cached when the call was      *)
(*            made,                                                        *)
(*            dirty: the configs that were modified when the call was      *)
(*            made, and reverted: whether the call before was a revert     *)
(*            that evicted this config with unsaved changes                *)
(*   steps    number of calls made so far                                  *)
(* A panic or a hang ends the run.                                         *)
(*                                                                         *)
(* The functions below the store (lexer, scanner, parser, tree) are also   *)
(* run on their own, on inputs drawn from bounded sets:                    *)
(*   mode      what is run: "store" (the store above), "lex", "scan",      *)
(*             "parse" or "merge"                                          *)
(*   text      the input text                                              *)
(*   lexer     the Lexer over text ("lex")                                 *)
(*   scanner   the Scanner over text ("scan")                              *)
(*   seen      the kinds of the items returned by next_item so far, or of  *)
(*             the tokens returned by next ("None" for None); "Hang" when  *)
(*             the call does not return                                    *)
(*   parsed    Option: the result of uci_parse(text)                       *)
(*   reparsed  Option: the result of parsing the serialization of parsed   *)
(*   got       Option: a selector and what UciConfig::get returned for it  *)
(*   option    a UciOption and                                             *)
(*   incoming  the values merged into it                                   *)
(*   merged    Option: the option after merge_values                       *)
(***************************************************************************)
VARIABLES configs, disk, last, steps,
          mode, text, lexer, scanner, seen, parsed, reparsed, got, option, incoming, merged,
          returned, selector, unmangled, section, applied, edited

store_vars == << configs, disk, last, steps >>

pure_vars == << mode, text, lexer, scanner, seen, parsed, reparsed, got, option, incoming, merged,
                returned, selector, unmangled, section, applied, edited >>

vars == << configs, disk, last, steps,
           mode, text, lexer, scanner, seen, parsed, reparsed, got, option, incoming, merged,
           returned, selector, unmangled, section, applied, edited >>

\* How a call of op on a config uses the lock of the store: "held" when
\* self.lock.lock() is its first statement and the guard lives until it
\* returns, "load" when the lock is taken only inside _load_config, after the
\* call has looked the name up in the map, and released when _load_config
\* returns, "none" when the call never takes it: the call found the config
\* in the map, or it is one of the operations on &self and
\* set_config_package_name, which never call _load_config.
lock_use(op, cached) ==
    IF op \in {"commit", "revert", "load_config_force"} THEN "held"
    ELSE IF op \in {"get_option_value", "get_option_last_value", "get_option_bool_value",
                    "get_config", "set_config_package_name"}
    THEN "none"
    ELSE IF cached THEN "none"
    ELSE "load"

Dirty(cfgs) == {n \in DOMAIN cfgs : cfgs[n].modified}

Called(op, name, names, r, out) ==
    [op |-> op, name |-> name, names |-> names, res |-> r.res, msg |-> r.msg,
     read |-> r.read, out |-> out, fault |-> NoFault, saved |-> <<>>, created |-> {},
     failed |-> <<>>, args |-> <<>>, cached |-> name \in DOMAIN configs,
     dirty |-> Dirty(configs),
     reverted |-> last.op = "revert" /\ name \in Range(last.names) \cap last.dirty]

Running == steps < MaxSteps /\ last.res \notin {"Panic", "Hang"}

\* The record of a store on which nothing has been called.
Constructed ==
    [op |-> "new", name |-> "", names |-> <<>>, res |-> "Ok", msg |-> "",
     read |-> FALSE, out |-> <<>>, fault |-> NoFault, saved |-> <<>>,
     created |-> {}, failed |-> <<>>, args |-> <<>>, cached |-> FALSE, dirty |-> {},
     reverted |-> FALSE]

\* Nothing is lexed, scanned, parsed or merged.
NoText ==
    /\ text = <<>>
    /\ lexer = Lexer_new("", <<>>)
    /\ scanner = Scanner_new("", <<>>)
    /\ seen = <<>>
    /\ parsed = <<>>
    /\ reparsed = <<>>
    /\ got = <<>>
    /\ returned = <<>>

NoOption ==
    /\ option = UciOption_new(<<>>, "TypeOption", <<>>)
    /\ incoming = <<>>
    /\ merged = <<>>

NoSelector ==
    /\ selector = <<>>
    /\ unmangled = <<>>

\* No call has been applied to the section.
NotApplied ==
    [op |-> "new", name |-> <<>>, typ |-> <<>>, values |-> <<>>, had |-> <<>>, count |-> 0]

NoSection ==
    /\ section = UciSection_new(<<>>, <<>>)
    /\ applied = NotApplied

Init ==
    /\ configs = << >>
    /\ disk \in {[n \in {"a"} |-> FileA], [n \in Names |-> IF n = "a" THEN FileA ELSE FileBad]}
    /\ last = Constructed
    /\ steps = 0
    /\ mode = "store"
    /\ NoText
    /\ NoOption
    /\ NoSelector
    /\ NoSection
    /\ edited = <<>>

\* The effect on cache and record of a call that returned r.
Returned(op, name, names, r, out) ==
    /\ configs' = r.configs
    /\ last' = Called(op, name, names, r, out)

\* The same for a call whose return value is part of r.
ReturnedValue(op, name, r) == Returned(op, name, << name >>, r, r.out)

LoadConfig(name) ==
    /\ Running
    /\ Returned("load_config", name, << name >>, load_config(configs, disk, name), <<>>)
    /\ steps' = steps + 1
    /\ UNCHANGED disk
    /\ UNCHANGED pure_vars

LoadConfigForce(name) ==
    /\ Running
    /\ Returned("load_config_force", name, << name >>,
                load_config_force(configs, disk, name), <<>>)
    /\ steps' = steps + 1
    /\ UNCHANGED disk
    /\ UNCHANGED pure_vars

Revert(config_names) ==
    /\ Running
    /\ Returned("revert", "", config_names,
                Reply("Ok", "", revert(configs, config_names), FALSE), <<>>)
    /\ steps' = steps + 1
    /\ UNCHANGED disk
    /\ UNCHANGED pure_vars

GetSections(config_name, section_type) ==
    /\ Running
    /\ ReturnedValue("get_sections", config_name,
                     get_sections(configs, disk, config_name, section_type))
    /\ steps' = steps + 1
    /\ UNCHANGED disk
    /\ UNCHANGED pure_vars

GetOptionValue(config_name, section_type_name, option_name) ==
    /\ Running
    /\ ReturnedValue("get_option_value", config_name,
                     get_option_value(configs, config_name, section_type_name, option_name)
                         @@ [configs |-> configs, read |-> FALSE])
    /\ steps' = steps + 1
    /\ UNCHANGED disk
    /\ UNCHANGED pure_vars

GetOptionLastValue(config_name, section_type_name, option_name) ==
    /\ Running
    /\ ReturnedValue("get_option_last_value", config_name,
                     get_option_last_value(configs, config_name, section_type_name, option_name)
                         @@ [configs |-> configs, read |-> FALSE])
    /\ steps' = steps + 1
    /\ UNCHANGED disk
    /\ UNCHANGED pure_vars

SetConfigPackageName(config_name, package_name) ==
    /\ Running
    /\ Returned("set_config_package_name", config_name, << config_name >>,
                set_config_package_name(configs, config_name, package_name), <<>>)
    /\ steps' = steps + 1
    /\ UNCHANGED disk
    /\ UNCHANGED pure_vars

\* The effect of a set_option_values that returned r.
OptionSet(config_name, args, r) ==
    /\ configs' = r.configs
    /\ last' = [Called("set_option_values", config_name, << config_name >>, r, <<>>)
                    EXCEPT !.args = args]

SetOptionValues(config_name, section_type_name, option_name, values) ==
    /\ Running
    /\ OptionSet(config_name, << section_type_name, option_name, values >>,
                 set_option_values(configs, disk, config_name, section_type_name,
                                   option_name, values))
    /\ steps' = steps + 1
    /\ UNCHANGED disk
    /\ UNCHANGED pure_vars

DelOption(config_name, section_type_name, option_name) ==
    /\ Running
    /\ Returned("del_option", config_name, << config_name >>,
                del_option(configs, disk, config_name, section_type_name, option_name), <<>>)
    /\ steps' = steps + 1
    /\ UNCHANGED disk
    /\ UNCHANGED pure_vars

\* r is what add_section returned for the arguments args.
SectionAdded(config_name, args, r) ==
    /\ configs' = r.configs
    /\ last' = [Called("add_section", config_name, << config_name >>, r, <<>>)
                    EXCEPT !.args = args]

AddSection(config_name, section_type, section_name) ==
    /\ Running
    /\ SectionAdded(config_name, << section_type, section_name >>,
                    add_section(configs, disk, config_name, section_type, section_name))
    /\ steps' = steps + 1
    /\ UNCHANGED disk
    /\ UNCHANGED pure_vars

DelSection(config_name, section_type_name) ==
    /\ Running
    /\ Returned("del_section", config_name, << config_name >>,
                del_section(configs, disk, config_name, section_type_name), <<>>)
    /\ steps' = steps + 1
    /\ UNCHANGED disk
    /\ UNCHANGED pure_vars

\* The effect of a commit that returned r.
Committed(order, fault, r) ==
    /\ configs' = r.configs
    /\ disk' = r.files
    /\ last' = [Called("commit", "", order, r @@ [msg |-> "", read |-> FALSE], <<>>)
                    EXCEPT !.fault = fault, !.saved = r.saved, !.failed = r.failed,
                           !.created = Range(r.saved) \ DOMAIN disk]

\* order and the fault are the choices of the environment: the iteration
\* order of the HashMap and the I/O step that fails in the k-th save.
Commit(order, k, fault) ==
    /\ Running
    /\ k <= Len(order)
    /\ Committed(order, fault, commit(configs, disk, order, k, fault))
    /\ steps' = steps + 1
    /\ UNCHANGED pure_vars

Next ==
    \/ \E name \in Names \cup {""} : LoadConfig(name)
    \/ \E name \in Names : LoadConfigForce(name)
    \/ \E config_names \in RevertInputs : Revert(config_names)
    \/ \E name \in Names : GetSections(name, TypeT)
    \/ \E name \in Names, sel \in Selectors : GetOptionValue(name, sel, OptO)
    \/ \E name \in Names, sel \in Selectors : GetOptionLastValue(name, sel, OptO)
    \/ \E name \in Names, sel \in Selectors, values \in ValueLists :
            SetOptionValues(name, sel, OptO, values)
    \/ \E name \in Names, sel \in Selectors : DelOption(name, sel, OptO)
    \/ \E name \in Names, in \in AddInputs : AddSection(name, in[1], in[2])
    \/ \E name \in Names, sel \in Selectors : DelSection(name, sel)
    \/ \E name \in Names : SetConfigPackageName(name, PkgQ)
    \/ \E order \in Orders(configs) : Commit(order, 0, NoFault)
    \/ \E order \in Orders(configs), fault \in Faults :
            \E k \in 1..Len(order) : Commit(order, k, fault)

Spec == Init /\ [][Next]_vars

(***************************************************************************)
(* Lexer, scanner, parser and tree on their own.  A text is made of at     *)
(* most MaxBlocks lines followed by an ending, which may lack the final    *)
(* newline.                                                                *)
(***************************************************************************)
MaxBlocks == 3

\* Calls of next_item or next made on one text.
MaxCalls == 16

\* Length of the value list merged into an option.
MaxValues == 3

\* config t
BlockA == KW_CONFIG \o <<" ", "t", "\n">>

\* config t 's'
BlockS == KW_CONFIG \o <<" ", "t", " ", "'", "s", "'", "\n">>

\* config u '@t[0]'
BlockD == KW_CONFIG \o <<" ", "u", " ", "'", "@", "t", "[", "0", "]", "'", "\n">>

\* <tab>option o v
BlockO == <<"\t">> \o KW_OPTION \o <<" ", "o", " ", "v", "\n">>

\* <tab>list o 'w'
BlockL == <<"\t">> \o KW_LIST \o <<" ", "o", " ", "'", "w", "'", "\n">>

\* <tab>list o "v'"
BlockQ == <<"\t">> \o KW_LIST \o <<" ", "o", " ", "\"", "v", "'", "\"", "\n">>

\* package 'p'
BlockP == KW_PACKAGE \o <<" ", "'", "p", "'", "\n">>

Blocks == {BlockA, BlockS, BlockD, BlockO, BlockL, BlockQ, BlockP}

\* "\n package\n": the package keyword without a name
IncompletePackage == <<"\n", " ">> \o KW_PACKAGE \o <<"\n">>

\* Nothing; a line that is no keyword; a section header and an option
\* without the final newline; a package line without a name.
Endings ==
    {<<>>, <<"x", "\n">>, KW_CONFIG \o <<" ", "t">>,
     <<"\t">> \o KW_OPTION \o <<" ", "o", " ", "v">>, IncompletePackage}

\* Length of the text after an option name.
MaxValueLen == 4

ValueChars == {"'", "\"", "\\", "\n", " ", "#", "v"}

\* "config t\n\toption o "
ValuePrefix == BlockA \o <<"\t">> \o KW_OPTION \o <<" ", "o", " ">>

\* An option line whose value is followed by the end of the input or by more
\* characters.
ValueTexts ==
    {ValuePrefix \o cs : cs \in UNION {[1..n -> ValueChars] : n \in 1..MaxValueLen}}

\* Texts with runes of more than one byte: a no-break space before the
\* keyword and a two-byte letter in a quoted value; a two-byte letter in an
\* unquoted value; a two-byte letter before the quoted package name.
UnicodeTexts ==
    {<<"U+00A0">> \o BlockA \o <<"\t">> \o KW_OPTION \o <<" ", "o", " ", "'", "U+00E9", "'", "\n">>,
     BlockA \o <<"\t">> \o KW_LIST \o <<" ", "o", " ", "U+00E9", "v", "\n">>,
     KW_PACKAGE \o <<" ", "U+00E9", "'", "p", "'", "\n">>}

Texts == {Concat(bs) \o e : bs \in UNION {[1..n -> Blocks] : n \in 0..MaxBlocks}, e \in Endings}

ValuesUpTo(n) == UNION {[1..k -> {ValV, ValW}] : k \in 0..n}

\* The options merged into: their values are free of duplicates.
Options ==
    {UciOption_new(OptO, typ, values) :
        typ \in {"TypeOption", "TypeList"},
        values \in {vs \in ValuesUpTo(2) : Cardinality(Range(vs)) = Len(vs)}}

\* Calls applied to one section.
MaxOps == 3

OptP == <<"p">>

OptionNames == {OptO, OptP}

\* The options merged into a section.
MergedOptions ==
    {UciOption_new(n, typ, values) :
        n \in OptionNames, typ \in {"TypeOption", "TypeList"},
        values \in {<< ValV >>, << ValW, ValV >>}}

\* The sections given to merge: anonymous and named, of both types, without
\* and with an option.
MergedSections ==
    {[name |-> name, sec_type |-> typ, options |-> options] :
        name \in {<<>>, NameS}, typ \in {TypeT, TypeU},
        options \in {<<>>, << UciOption_new(OptO, "TypeOption", << ValW >>) >>}}

\* Characters after the '@' of a selector.
MaxSelector == 5

SelectorChars == {"@", "t", "[", "]", "1", "-"}

\* The selectors that start with '@'.
SelectorTexts ==
    {<<"@">> \o cs : cs \in UNION {[1..n -> SelectorChars] : n \in 0..MaxSelector}}

\* i32 to_string
i32_to_string(i) == IF i < 0 THEN <<"-">> \o usize_to_string(-i) ELSE usize_to_string(i)

\* "@<sec_type>[<i>]"
Selector(sec_type, i) == <<"@">> \o sec_type \o <<"[">> \o i32_to_string(i) \o <<"]">>

\* The names given to del: the section name of the texts and the positional
\* selectors of both types, inside and outside the range of the sections.
DeletedNames ==
    {NameS} \cup {Selector(typ, i) : typ \in {TypeT, TypeU}, i \in (-MaxBlocks)..MaxBlocks}

PureInit ==
    /\ configs = << >>
    /\ disk = << >>
    /\ last = Constructed
    /\ steps = 0
    /\ edited = <<>>
    /\ \/ /\ \/ mode \in {"lex", "scan", "parse"} /\ text \in Texts \cup UnicodeTexts
             \/ mode = "lex" /\ text \in ValueTexts
          /\ lexer = Lexer_new("a", text)
          /\ scanner = Scanner_new("a", text)
          /\ seen = <<>>
          /\ parsed = <<>>
          /\ reparsed = <<>>
          /\ got = <<>>
          /\ returned = <<>>
          /\ NoOption
          /\ NoSelector
          /\ NoSection
       \/ /\ mode = "merge"
          /\ NoText
          /\ option \in Options
          /\ incoming \in ValuesUpTo(MaxValues)
          /\ merged = <<>>
          /\ NoSelector
          /\ NoSection
       \/ /\ mode = "unmangle"
          /\ NoText
          /\ NoOption
          /\ selector \in SelectorTexts
          /\ unmangled = <<>>
          /\ NoSection
       \/ /\ mode = "section"
          /\ NoText
          /\ NoOption
          /\ NoSelector
          /\ section = UciSection_new(TypeT, NameS)
          /\ applied = NotApplied

\* n is what next_item returned: the item and the lexer after the call.
ItemReturned(n) ==
    /\ lexer' = n.lx
    /\ seen' = Append(seen, n.item.typ)
    /\ returned' = Append(returned, n.item)

NextItem ==
    /\ mode = "lex"
    /\ Len(seen) < MaxCalls
    /\ ~lexer.diverged
    /\ ItemReturned(next_item(lexer))
    /\ UNCHANGED << mode, text, scanner, parsed, reparsed, got, option, incoming, merged,
                    selector, unmangled, section, applied, edited >>
    /\ UNCHANGED store_vars

\* n is what next returned: the Option<Token> and the scanner after the call.
TokenReturned(n) ==
    /\ scanner' = n.sc
    /\ seen' = Append(seen, IF n.sc.diverged
                            THEN IF n.sc.lexer.state = "Panic" THEN "Panic" ELSE "Hang"
                            ELSE IF n.tok = <<>> THEN "None" ELSE n.tok[1].typ)
    /\ returned' = Append(returned, n.tok)

NextToken ==
    /\ mode = "scan"
    /\ Len(seen) < MaxCalls
    /\ ~scanner.diverged
    /\ TokenReturned(scanner_next(scanner))
    /\ UNCHANGED << mode, text, lexer, parsed, reparsed, got, option, incoming, merged,
                    selector, unmangled, section, applied, edited >>
    /\ UNCHANGED store_vars

Parse ==
    /\ mode = "parse"
    /\ parsed = <<>>
    /\ parsed' = << uci_parse("a", text) >>
    /\ UNCHANGED << mode, text, lexer, scanner, seen, reparsed, got, option, incoming, merged,
                    returned, selector, unmangled, section, applied, edited >>
    /\ UNCHANGED store_vars

\* write_in to a file that accepts every byte, then uci_parse of the file.
Reparse ==
    /\ mode = "parse"
    /\ parsed # <<>>
    /\ parsed[1].kind = "Ok"
    /\ reparsed = <<>>
    /\ edited = <<>>
    /\ reparsed' = << IF write_in_panics(parsed[1].cfg)
                      THEN ParseResult("Panic", parsed[1].cfg, "")
                      ELSE uci_parse("a", serialize(parsed[1].cfg)) >>
    /\ UNCHANGED << mode, text, lexer, scanner, seen, parsed, got, option, incoming, merged,
                    returned, selector, unmangled, section, applied, edited >>
    /\ UNCHANGED store_vars

\* UciConfig::get on the parsed config
Get(sec_type, i) ==
    /\ mode = "parse"
    /\ parsed # <<>>
    /\ parsed[1].kind = "Ok"
    /\ got = <<>>
    /\ edited = <<>>
    /\ got' = << [sec_type |-> sec_type, index |-> i,
                  r |-> config_get(parsed[1].cfg, Selector(sec_type, i))] >>
    /\ UNCHANGED << mode, text, lexer, scanner, seen, parsed, reparsed, option, incoming, merged,
                    returned, selector, unmangled, section, applied, edited >>
    /\ UNCHANGED store_vars

\* The config after a call made on the parsed config; panic stands for a
\* failed unwrap() inside the call.
Edited(op, name, sec, r) ==
    /\ mode = "parse"
    /\ parsed # <<>>
    /\ parsed[1].kind = "Ok"
    /\ got = <<>>
    /\ reparsed = <<>>
    /\ edited = <<>>
    /\ edited' = << [op |-> op, name |-> name, section |-> sec, panic |-> r.panic, cfg |-> r.cfg] >>
    /\ UNCHANGED << mode, text, lexer, scanner, seen, parsed, reparsed, got, option, incoming, merged,
                    returned, selector, unmangled, section, applied >>
    /\ UNCHANGED store_vars

\* UciConfig::del on the parsed config
Del(name) ==
    Edited("del", name, UciSection_new(<<>>, <<>>),
           [panic |-> FALSE, cfg |-> config_del(parsed[1].cfg, name)])

\* UciConfig::merge on the parsed config
Merge(sec) == Edited("merge", <<>>, sec, config_merge(parsed[1].cfg, sec))

MergeValues ==
    /\ mode = "merge"
    /\ merged = <<>>
    /\ merged' = << merge_values(option, incoming) >>
    /\ UNCHANGED << mode, text, lexer, scanner, seen, parsed, reparsed, got, option, incoming,
                    returned, selector, unmangled, section, applied, edited >>
    /\ UNCHANGED store_vars

Unmangle ==
    /\ mode = "unmangle"
    /\ unmangled = <<>>
    /\ unmangled' = << unmangle_section_name(selector) >>
    /\ UNCHANGED << mode, text, lexer, scanner, seen, parsed, reparsed, got, option, incoming, merged,
                    returned, selector, section, applied, edited >>
    /\ UNCHANGED store_vars

\* The section after a call and the record of the call; typ is the kind the
\* call was given (none for del) and had is the option of that name the
\* section held before the call (Option<UciOption>).
Applied(op, name, typ, values, sec) ==
    /\ mode = "section"
    /\ applied.count < MaxOps
    /\ section' = sec
    /\ applied' = [op |-> op, name |-> name, typ |-> typ, values |-> values,
                   had |-> section_get(section, name), count |-> applied.count + 1]
    /\ UNCHANGED << mode, text, lexer, scanner, seen, parsed, reparsed, got, option, incoming, merged,
                    returned, selector, unmangled, edited >>
    /\ UNCHANGED store_vars

\* uci_parse on an Option token with the pending section
ParseOption(name, val) == Applied("option", name, << "TypeOption" >>, << val >>, parse_option(section, name, val))

\* uci_parse on a List token with the pending section
ParseList(name, val) == Applied("list", name, << "TypeList" >>, << val >>, parse_list(section, name, val))

\* set_option_values on the section found
SectionSet(name, values) ==
    Applied("set", name, << IF Len(values) > 1 THEN "TypeList" ELSE "TypeOption" >>, values,
            section_set(section, name, IF Len(values) > 1 THEN "TypeList" ELSE "TypeOption", values))

SectionMerge(opt) == Applied("merge", opt.name, << opt.opt_type >>, opt.values, section_merge(section, opt))

SectionDel(name) == Applied("del", name, <<>>, <<>>, section_del(section, name).sec)

PureNext ==
    \/ NextItem
    \/ NextToken
    \/ Parse
    \/ Reparse
    \/ \E i \in (-MaxBlocks - 1)..MaxBlocks : Get(TypeT, i)
    \/ MergeValues
    \/ Unmangle
    \/ \E n \in OptionNames, v \in {ValV, ValW} : ParseOption(n, v)
    \/ \E n \in OptionNames, v \in {ValV, ValW} : ParseList(n, v)
    \/ \E n \in OptionNames, values \in ValueLists : SectionSet(n, values)
    \/ \E opt \in MergedOptions : SectionMerge(opt)
    \/ \E n \in OptionNames : SectionDel(n)
    \/ \E name \in DeletedNames : Del(name)
    \/ \E sec \in MergedSections : Merge(sec)

PureSpec == PureInit /\ [][PureNext]_vars

(***************************************************************************)
(* Properties of the store.  The step properties compare the state before  *)
(* a call (unprimed) with the state after it (primed).                     *)
(***************************************************************************)
\* The step is a call of op.
IsCall(op) == steps' = steps + 1 /\ last'.op = op

\* The step leaves the file of config n as it was (present or absent).
SameFile(n) ==
    /\ n \in DOMAIN disk <=> n \in DOMAIN disk'
    /\ n \in DOMAIN disk => disk'[n] = disk[n]

\* The parse of the file of config n before the step.
Parsed(n) == uci_parse(n, disk[n])

\* C1: if an I/O step of saving a modified config fails during commit (a
\* failed write of the serialized bytes included), commit returns an error
\* and the canonical file of that config keeps the bytes it had before.
C1_FailedSaveIsReported ==
    [][(IsCall("commit") /\ last'.res \in {"Ok", "Err"})
          => \A i \in DOMAIN last'.failed :
                last'.res = "Err" /\ SameFile(last'.failed[i])]_vars

\* C2: after commit returns Ok, every config that was cached with
\* modified=true has a file holding the serialization of its tree and has
\* modified=false; the files of the unmodified cached configs are not written.
C2_CommitWritesSerialization ==
    [][(IsCall("commit") /\ last'.res = "Ok")
          => \A n \in DOMAIN configs :
                IF configs[n].modified
                THEN /\ n \in DOMAIN disk'
                     /\ disk'[n] = serialize(configs[n])
                     /\ configs'[n] = [configs[n] EXCEPT !.modified = FALSE]
                ELSE SameFile(n)]_vars

\* The step is a successful add_section that adds a section to a cached config.
AddsSection ==
    /\ IsCall("add_section")
    /\ last'.name \in DOMAIN configs
    /\ Len(configs'[last'.name].sections) > Len(configs[last'.name].sections)

\* C3: every successful set_option_values, del_section, del_option and
\* add_section that adds a section leaves the touched config with
\* modified=true.
C3_MutationSetsModified ==
    [][(/\ last'.res = "Ok"
        /\ \/ IsCall("set_option_values")
           \/ IsCall("del_section")
           \/ IsCall("del_option")
           \/ AddsSection)
          => configs'[last'.name].modified]_vars

\* C4: the modified flag of a config that stays cached goes from true to
\* false only in a commit that returns Ok (or when load_force replaces the
\* cached entry); no add, set or del operation resets it.
C4_OnlyCommitClearsModified ==
    [][\A n \in DOMAIN configs \cap DOMAIN configs' :
          (configs[n].modified /\ ~configs'[n].modified)
             => \/ IsCall("commit") /\ last'.res = "Ok" /\ n \in Range(last'.saved)
                \/ IsCall("load_config_force") /\ last'.name = n]_vars

\* C5: when commit fails on one config, no further config is written, the
\* configs already written in that call stay replaced and have their modified
\* flag cleared, and the failing and the unprocessed configs keep
\* modified=true.
C5_PartialCommitClearsWritten ==
    [][(IsCall("commit") /\ last'.res = "Err")
          => \A n \in DOMAIN configs :
                IF n \in Range(last'.saved)
                THEN n \in DOMAIN disk' /\ ~configs'[n].modified
                ELSE SameFile(n) /\ configs'[n].modified = configs[n].modified]_vars

\* C6: revert never fails, never touches a file and evicts exactly the named
\* configs; no call but commit changes a file; and the load(name) that
\* follows a revert of name returns what parsing the file of name yields: on
\* success the cached config is the parse of the file, with modified=false,
\* whatever mutations preceded the revert.
C6_RevertThenLoadReparses ==
    [][/\ IsCall("revert")
            => /\ last'.res = "Ok"
               /\ disk' = disk
               /\ DOMAIN configs' = DOMAIN configs \ Range(last'.names)
               /\ \A n \in DOMAIN configs' : configs'[n] = configs[n]
       /\ (steps' = steps + 1 /\ last'.op # "commit") => disk' = disk
       /\ (/\ last.op = "revert"
           /\ IsCall("load_config")
           /\ last'.name \in Range(last.names)
           /\ last'.name \in DOMAIN disk)
            => /\ last'.res = Parsed(last'.name).kind
               /\ last'.res = "Ok"
                    => /\ configs'[last'.name] = Parsed(last'.name).cfg
                       /\ ~configs'[last'.name].modified
               /\ last'.res # "Ok" => last'.name \notin DOMAIN configs']_vars

\* A load that follows the revert of a config with unsaved changes.
C6_Witness ==
    /\ last.op = "load_config"
    /\ last.res = "Ok"
    /\ last.reverted
    /\ configs[last.name] = uci_parse(last.name, disk[last.name]).cfg

\* C7: load(name) of a cached config returns the error "<name> already
\* loaded" and leaves the cache as it is, without reading the file; otherwise
\* it parses the file of name and, if that succeeds, caches the result with
\* modified=false, and caches nothing if it fails.
C7_LoadOnlyWhenNotCached ==
    [][IsCall("load_config")
          => IF last'.name \in DOMAIN configs
             THEN /\ last'.res = "Err"
                  /\ last'.msg = last'.name \o " already loaded"
                  /\ ~last'.read
                  /\ configs' = configs
             ELSE IF last'.name \in DOMAIN disk /\ Parsed(last'.name).kind = "Ok"
             THEN /\ last'.res = "Ok"
                  /\ configs' = Put(configs, last'.name, Parsed(last'.name).cfg)
                  /\ ~configs'[last'.name].modified
             ELSE last'.res # "Ok" /\ configs' = configs]_vars

\* A load refused for a cached config that has unsaved changes.
C7_Witness ==
    /\ last.op = "load_config"
    /\ last.res = "Err"
    /\ last.msg = last.name \o " already loaded"
    /\ last.name \in DOMAIN configs
    /\ configs[last.name].modified

\* C8: load_force(name) on a file that parses replaces the cached entry of
\* name by the parse of the file, with modified=false, and leaves every other
\* cached config as it is.
C8_LoadForceReplaces ==
    [][(/\ IsCall("load_config_force")
        /\ last'.name \in DOMAIN disk
        /\ Parsed(last'.name).kind = "Ok")
          => /\ last'.res = "Ok"
             /\ configs' = Put(configs, last'.name, Parsed(last'.name).cfg)
             /\ ~configs'[last'.name].modified]_vars

\* A forced load of a config with unsaved changes while another config has
\* unsaved changes too.
C8_Witness ==
    /\ last.op = "load_config_force"
    /\ last.res = "Ok"
    /\ last.name \in last.dirty
    /\ ~configs[last.name].modified
    /\ \E m \in DOMAIN configs \ {last.name} : configs[m].modified

\* The six operations that the specification says load the config on a miss.
AutoLoading ==
    {"get_sections", "get_option_value", "set_option_values", "add_section", "del_section",
     "del_option"}

\* C9: each of the six operations, called for a config that is not cached and
\* whose file parses, reads the file and caches the config; called for a cached
\* config it does not read the file.
C9_OperationsAutoLoad ==
    [][(steps' = steps + 1 /\ last'.op \in AutoLoading)
          => IF last'.name \in DOMAIN configs THEN ~last'.read
             ELSE (last'.name \in DOMAIN disk /\ Parsed(last'.name).kind = "Ok")
                     => last'.read /\ last'.name \in DOMAIN configs']_vars

\* The new config of an add_section on a name that is neither cached nor
\* backed by a file holds the section of the call and nothing else, and the
\* commit that follows, when it returns Ok, has created the file, which holds
\* the serialization if no write failed; that commit returns Ok when no I/O
\* step fails and no other config has unsaved changes.
AddSectionCreates(returns) ==
    /\ (/\ IsCall("add_section")
        /\ last'.name \notin DOMAIN configs
        /\ last'.name \notin DOMAIN disk
        /\ returns)
         => /\ last'.res = "Ok"
            /\ last'.name \in DOMAIN configs'
            /\ configs'[last'.name].modified
            /\ configs'[last'.name].sections
                    = << UciSection_new(last'.args[1], last'.args[2]) >>
    /\ (/\ last.op = "add_section"
        /\ last.res = "Ok"
        /\ ~last.cached
        /\ last.name \notin DOMAIN disk
        /\ IsCall("commit"))
         => /\ last'.res = "Ok"
                 => /\ last.name \in DOMAIN disk'
                    /\ last'.failed = <<>> => disk'[last.name] = serialize(configs[last.name])
            /\ (last'.fault = NoFault /\ Dirty(configs) = {last.name}) => last'.res = "Ok"

\* C10: add_section for a config that is neither cached nor backed by a file
\* returns Ok, whatever the type and the name of the section, and caches a
\* config with modified=true whose only section is the new one; the commit
\* that follows creates the file.
C10_AddSectionCreatesConfig == [][AddSectionCreates(TRUE)]_vars

\* The same for the calls that return: a call that panics leaves the new
\* config in the cache, without a section.
AddSectionCreatesWhenItReturns ==
    [][/\ AddSectionCreates(last'.res # "Panic")
       /\ (/\ IsCall("add_section")
           /\ last'.name \notin DOMAIN configs
           /\ last'.name \notin DOMAIN disk
           /\ last'.res = "Panic")
            => /\ last'.args[2] = SelCut
               /\ configs' = Put(configs, last'.name,
                                  [UciConfig_new(last'.name) EXCEPT !.modified = TRUE])]_vars

\* What get_option_value returns for section and option of args once the
\* forced load r of config n has returned.
ReloadedValue(r, n, args) ==
    IF r.res # "Ok" THEN [res |-> r.res, msg |-> r.msg, out |-> <<>>]
    ELSE get_option_value(r.configs, n, args[1], args[2])

\* C11: when set_option_values on a cached config with a non-empty value list
\* vs has returned Ok and the commit that follows returns Ok, a
\* load_config_force of that config succeeds and get_option_value then
\* returns exactly vs.
C11_SetCommitReloadKeepsValues ==
    [][(/\ last.op = "set_option_values"
        /\ last.res = "Ok"
        /\ last.cached
        /\ last.args[3] # <<>>
        /\ IsCall("commit")
        /\ last'.res = "Ok")
          => ReloadedValue(load_config_force(configs', disk', last.name), last.name, last.args)
                = [res |-> "Ok", msg |-> "", out |-> << last.args[3] >>]]_vars

\* C12: for every text the parser accepts, parsing the serialization of the
\* parsed config succeeds and yields a config equal to the parsed one, section
\* for section, option for option and value for value.
C12_ParseSerializeParse ==
    reparsed # <<>> => /\ reparsed[1].kind = "Ok"
                       /\ reparsed[1].cfg = parsed[1].cfg

\* C13: on every text, ending with a newline or not, every call of next_item
\* returns, so that repeated calls reach an Eof or Error item.
C13_NextItemReturns == mode = "lex" => Range(seen) \cap {"Hang", "Panic"} = {}

\* C14: in the items returned by successive next_item calls nothing follows an
\* Error item and only Eof items follow an Eof item.
C14_OneTerminalItem ==
    mode = "lex" => \A i \in 1..(Len(seen) - 1) : /\ seen[i] # "Error"
                                                  /\ seen[i] = "Eof" => seen[i + 1] = "Eof"

\* C15: on every text each next() returns a Package, Section, Option or List
\* token, an Error token or None, never a token for Eof, and once it has
\* returned an Error token or None every later next() returns None.
C15_ScannerEndsOnce ==
    mode = "scan" =>
        /\ Range(seen) \subseteq {"Package", "Section", "Option", "List", "Error", "None"}
        /\ \A i \in 1..(Len(seen) - 1) : seen[i] \in {"Error", "None"} => seen[i + 1] = "None"

\* The same for the calls that return: the sequence of a scanner whose lexer
\* spins or panics breaks off without an end.
ScannerEndsOnceWhenItReturns ==
    mode = "scan" =>
        /\ Range(seen) \subseteq {"Package", "Section", "Option", "List", "Error", "None",
                                  "Hang", "Panic"}
        /\ \A i \in 1..(Len(seen) - 1) : seen[i] \in {"Error", "None"} => seen[i + 1] = "None"
        /\ \A i \in 1..(Len(seen) - 1) : seen[i] \notin {"Hang", "Panic"}

\* The tokens yielded by iterating the scanner to its end.
RECURSIVE scan_all(_)
scan_all(sc) ==
    LET yielded(n) == IF n.sc.diverged \/ n.tok = <<>> THEN <<>>
                      ELSE << n.tok[1] >> \o scan_all(n.sc)
    IN  yielded(scanner_next(sc))

ErrorTokens(tokens) == SelectSeq(tokens, LAMBDA tok : tok.typ = "Error")

ParseFails(p, errors) ==
    errors # <<>> => /\ p.kind = "Err"
                     /\ p.msg = "parse error: " \o errors[1].items[1].val

\* C16: when the token stream of a text contains an Error token, uci_parse
\* returns Err carrying that token's message, however many sections and options
\* precede the error.
C16_ErrorTokenFailsParse ==
    parsed # <<>> => ParseFails(parsed[1], ErrorTokens(scan_all(Scanner_new("a", text))))

\* C17: uci_parse never panics, whatever the text.
C17_ParseNeverPanics == parsed # <<>> => parsed[1].kind # "Panic"

SectionKey(sec) == [sec_type |-> sec.sec_type, name |-> sec.name]

TokenKey(tok) ==
    [sec_type |-> tok.items[1].val,
     name |-> IF Len(tok.items) = 2 THEN tok.items[2].val ELSE <<>>]

\* Type and name of the sections a token stream announces: a section is
\* dropped (merged) when its non-empty name occurred before, appended otherwise.
RECURSIVE DistinctSections(_, _)
DistinctSections(tokens, acc) ==
    IF tokens = <<>> THEN acc
    ELSE IF Head(tokens).typ # "Section" THEN DistinctSections(Tail(tokens), acc)
    ELSE IF TokenKey(Head(tokens)).name \in {acc[i].name : i \in DOMAIN acc} \ {<<>>}
    THEN DistinctSections(Tail(tokens), acc)
    ELSE DistinctSections(Tail(tokens), Append(acc, TokenKey(Head(tokens))))

SectionsAre(cfg, keys) == [i \in DOMAIN cfg.sections |-> SectionKey(cfg.sections[i])] = keys

\* C18: the sections of a parsed config are, in order, the anonymous sections
\* of the text and the first occurrence of each section name: a section is
\* merged into an earlier one only when both carry the same non-empty name.
C18_MergeOnlySameName ==
    (parsed # <<>> /\ parsed[1].kind = "Ok")
        => SectionsAre(parsed[1].cfg, DistinctSections(scan_all(Scanner_new("a", text)), <<>>))

\* The values in acc followed by each value of values not yet present.
RECURSIVE OrderedUnion(_, _)
OrderedUnion(acc, values) ==
    IF values = <<>> THEN acc
    ELSE OrderedUnion(IF Head(values) \in Range(acc) THEN acc ELSE Append(acc, Head(values)),
                      Tail(values))

NoDuplicates(values) == Cardinality(Range(values)) = Len(values)

\* C19: merging a value list into a List option without duplicates gives the
\* existing values followed by the incoming values not yet present, each once,
\* in incoming order; merging into a Scalar option replaces the values.
C19_MergeValuesIsUnion ==
    merged # <<>> =>
        IF option.opt_type = "TypeList"
        THEN /\ merged[1].values = OrderedUnion(option.values, incoming)
             /\ NoDuplicates(merged[1].values)
        ELSE merged[1].values = incoming

\* The number of sections of type sec_type among the first n sections.
CountBefore(cfg, sec_type, n) ==
    Cardinality({j \in 1..n : cfg.sections[j].sec_type = sec_type})

\* r is the section of type sec_type that has exactly k sections of that type
\* in front of it.
IsNth(cfg, sec_type, k, r) ==
    /\ r.ok
    /\ r.pos \in DOMAIN cfg.sections
    /\ cfg.sections[r.pos].sec_type = sec_type
    /\ CountBefore(cfg, sec_type, r.pos - 1) = k

Positional(cfg, g, n) ==
    IF 0 <= g.index /\ g.index < n THEN IsNth(cfg, g.sec_type, g.index, g.r)
    ELSE IF -n <= g.index /\ g.index < 0 THEN IsNth(cfg, g.sec_type, n + g.index, g.r)
    ELSE ~g.r.ok /\ g.r.err = "invalid name: index out of bounds"

\* C20: with N sections of type t in a config, get("@t[i]") is the i-th of them
\* in document order for 0 <= i < N, the (N+i)-th for -N <= i < 0, and the
\* error "invalid name: index out of bounds" for every other i, N and -N-1
\* included, whatever sections of other types the config holds.
C20_PositionalGet ==
    got # <<>> => Positional(parsed[1].cfg, got[1],
                             CountBefore(parsed[1].cfg, got[1].sec_type, Len(parsed[1].cfg.sections)))

\* A negative index resolved to a section of type t that is not the first of
\* its type and stands behind a section of another type.
C20_Witness ==
    /\ got # <<>>
    /\ got[1].index < 0
    /\ got[1].r.ok
    /\ CountBefore(parsed[1].cfg, got[1].sec_type, got[1].r.pos - 1) = 1
    /\ parsed[1].cfg.sections[1].sec_type # got[1].sec_type

Count(seq, c) == Cardinality({i \in DOMAIN seq : seq[i] = c})

\* An optional sign followed by at least one digit.
SignedDecimal(s) ==
    /\ s # <<>>
    /\ \/ s[1] \in Digits /\ \A i \in DOMAIN s : s[i] \in Digits
       \/ s[1] \in {"+", "-"} /\ Len(s) > 1 /\ \A i \in 2..Len(s) : s[i] \in Digits

\* "@<type>[<index>]": one '@', one '[', one ']' that is the last character.
WellFormedSelector(s) ==
    /\ Len(s) >= 5
    /\ Count(s, "@") = 1
    /\ Count(s, "[") = 1
    /\ Count(s, "]") = 1
    /\ s[Len(s)] = "]"
    /\ \E bra \in DOMAIN s : s[bra] = "[" /\ SignedDecimal(SubSeq(s, bra + 1, Len(s) - 1))

\* C21: a selector starting with '@' is decoded if and only if it is at least
\* 5 characters long, has no second '@', exactly one '[', a ']' as its last
\* character and nowhere else, and a signed decimal integer between the
\* brackets; every other selector is rejected.
C21_SelectorAcceptedIffWellFormed ==
    unmangled # <<>> => (unmangled[1].ok <=> WellFormedSelector(selector))

OptionsOf(cfg) == UNION {Range(cfg.sections[i].options) : i \in DOMAIN cfg.sections}

\* C22: in every state reached by loading and by store operations every
\* option of kind Scalar holds exactly one value.
C22_ScalarHoldsOneValue ==
    \A n \in DOMAIN configs : \A opt \in OptionsOf(configs[n]) :
        opt.opt_type = "TypeOption" => Len(opt.values) = 1

NamesOf(sec) == [i \in DOMAIN sec.options |-> sec.options[i].name]

\* The option names after a call: an option that was there keeps its place, a
\* new one goes to the end, a deleted one leaves the others in their order.
OrderKept(before, after, call) ==
    IF call.op = "del"
    THEN NamesOf(after) = SelectSeq(NamesOf(before), LAMBDA n : n # call.name)
    ELSE IF call.had # <<>> THEN NamesOf(after) = NamesOf(before)
    ELSE NamesOf(after) = Append(NamesOf(before), call.name)

UniqueOptionNames(cfg) == \A i \in DOMAIN cfg.sections : NoDuplicates(NamesOf(cfg.sections[i]))

\* C23: no section holds two options of one name, neither in a parsed config
\* nor after an Option or List token, a set, a merge or a delete applied to a
\* section, and each of these calls keeps the options in first-insertion order.
C23_OptionNamesUnique ==
    [][/\ parsed' # <<>> => UniqueOptionNames(parsed'[1].cfg)
       /\ applied'.count = applied.count + 1
            => /\ NoDuplicates(NamesOf(section'))
               /\ OrderKept(section, section', applied')]_vars

\* An option was merged into a section that held it as the first of two.
C23_Witness ==
    /\ applied.op = "merge"
    /\ applied.had # <<>>
    /\ Len(section.options) = 2
    /\ section.options[1].name = applied.name

\* C30: after an Option token with name n and value v the pending section
\* holds exactly one option named n, of kind Scalar with the values [v],
\* whatever it held under that name before.
C30_OptionTokenMakesScalar ==
    applied.op = "option" =>
        /\ Count(NamesOf(section), applied.name) = 1
        /\ section_get(section, applied.name)
                = << UciOption_new(applied.name, "TypeOption", applied.values) >>

MutatingOperations ==
    {"load_config", "load_config_force", "commit", "revert", "add_section",
     "set_option_values", "del_option", "del_section"}

\* C24: every mutating operation of the store takes the lock before it reads
\* or changes the config map and holds it until it returns.
C24_MutatingCallsHoldLock ==
    last.op \in MutatingOperations => lock_use(last.op, last.cached) = "held"

\* The tokens that the calls of next() have yielded so far.
Yielded == [i \in 1..Len(SelectSeq(returned, LAMBDA t : t # <<>>)) |->
                SelectSeq(returned, LAMBDA t : t # <<>>)[i][1]]

\* text without its last n characters
Before(n) == SubSeq(text, 1, Len(text) - n)

\* The scanner has come to the end of a text that ends with a package keyword
\* without a name, and the lines before it gave the tokens before.
IncompletePackageScanned(before) ==
    /\ mode = "scan"
    /\ Len(text) >= Len(IncompletePackage)
    /\ SubSeq(text, Len(text) - Len(IncompletePackage) + 1, Len(text)) = IncompletePackage
    /\ seen # <<>>
    /\ seen[Len(seen)] = "None"
    /\ ErrorTokens(before) = <<>>

IsError(tok, msg) == tok.typ = "Error" /\ tok.items[1].val = msg

\* C25 (as stated): the package keyword followed by a newline gives a Package
\* token and then an Error token "incomplete package name".
C25_PackageThenError ==
    IncompletePackageScanned(scan_all(Scanner_new("a", Before(Len(IncompletePackage)))))
        => /\ Len(Yielded) >= 2
           /\ Yielded[Len(Yielded) - 1].typ = "Package"
           /\ Yielded[Len(Yielded) - 1] \notin
                    Range(scan_all(Scanner_new("a", Before(Len(IncompletePackage)))))
           /\ IsError(Yielded[Len(Yielded)], "config: a, incomplete package name")

ErrorFollows(before) ==
    /\ Len(Yielded) = Len(before) + 1
    /\ SubSeq(Yielded, 1, Len(before)) = before
    /\ IsError(Yielded[Len(Yielded)], "config: a, incomplete package name")

\* C25 (amended): the package keyword followed by a newline gives no Package
\* token: after the tokens of the lines before it the scanner yields one Error
\* token with the message "config: <name>, incomplete package name".
C25_IncompletePackageIsError ==
    IncompletePackageScanned(scan_all(Scanner_new("a", Before(Len(IncompletePackage)))))
        => ErrorFollows(scan_all(Scanner_new("a", Before(Len(IncompletePackage)))))

\* The scan of "\n package\n" alone has ended.
C25_Witness ==
    /\ mode = "scan"
    /\ text = IncompletePackage
    /\ seen = <<"Error", "None">>

\* C27: a commit renames a temporary file over the canonical path only when
\* the whole serialization has been written to it and its mode and fsync have
\* succeeded: a config whose chmod, fsync or rename failed is not replaced, and
\* every file put in place holds the complete serialization of its config.
C27_NoPartialFile ==
    last.op = "commit" =>
        /\ last.fault.step \in AfterWrite => Range(last.failed) \cap Range(last.saved) = {}
        /\ \A i \in DOMAIN last.saved : disk[last.saved[i]] = serialize(configs[last.saved[i]])

\* The character at j of s is escaped: a backslash that is not itself escaped
\* stands before it; the string starts at from.
RECURSIVE Escaped(_, _, _)
Escaped(s, from, j) == j > from /\ s[j - 1] = "\\" /\ ~Escaped(s, from, j - 1)

\* The positions from `from` on at which an unescaped character of stops stands.
Unescaped(s, from, stops) == {i \in from..Len(s) : s[i] \in stops /\ ~Escaped(s, from, i)}

Least(S) == CHOOSE i \in S : \A j \in S : i <= j

\* The text after "option o " is a value text: the fifth item lexed is its value.
HasValue == Len(text) > Len(ValuePrefix) /\ SubSeq(text, 1, Len(ValuePrefix)) = ValuePrefix

ValueText == SubSeq(text, Len(ValuePrefix) + 1, Len(text))

ValueItem == [typ |-> returned[5].typ, val |-> returned[5].val]

\* The item expected for a quoted string v and the positions of its unescaped
\* closing quotes and newlines.
QuotedItem(v, ends) ==
    IF ends # {} /\ v[Least(ends)] = v[1]
    THEN [typ |-> "String", val |-> SubSeq(v, 2, Least(ends) - 1)]
    ELSE [typ |-> "Error", val |-> "config: a, unterminated quoted string"]

\* C28: a quoted value ends at the first unescaped quote equal to its opening
\* quote and gives one String item with the characters between the quotes, a
\* backslash taking the next character into the string; the end of the input or
\* an unescaped newline before that quote gives the Error "unterminated quoted
\* string" instead of a String item.
C28_QuotedString ==
    (mode = "lex" /\ HasValue /\ ValueText[1] \in Quotes /\ Len(returned) >= 5)
        => ValueItem = QuotedItem(ValueText, Unescaped(ValueText, 2, {ValueText[1], "\n"}))

\* A quoted value that holds an escaped quote of its own kind has been lexed.
C28_Witness ==
    /\ mode = "lex"
    /\ HasValue
    /\ Len(returned) >= 5
    /\ returned[5].typ = "String"
    /\ ValueText[1] \in Quotes
    /\ returned[5].val = << "\\", ValueText[1] >>

UnquotedItem(v, ends) ==
    IF ends # {}
    THEN [typ |-> "String", val |-> SubSeq(v, 1, Least(ends) - 1)]
    ELSE [typ |-> "Error", val |-> "config: a, unterminated unquoted string"]

\* C29: an unquoted value ends at the first unescaped space, tab, '#' or
\* newline and gives a String item with the characters before it; when the
\* input ends first the lexer gives the Error "unterminated unquoted string"
\* and no String item.
C29_UnquotedString ==
    (/\ mode = "lex" /\ HasValue /\ Len(returned) >= 5
     /\ ValueText[1] \notin Quotes \cup {" ", "\t", "#", "\n"})
        => ValueItem = UnquotedItem(ValueText, Unescaped(ValueText, 1, {" ", "\t", "#", "\n"}))

\* An unquoted value that holds an escaped space has been lexed.
C29_Witness ==
    /\ mode = "lex"
    /\ HasValue
    /\ Len(returned) >= 5
    /\ returned[5].typ = "String"
    /\ returned[5].val = << "v", "\\", " " >>

\* The config an operation on n works on: the cached one, else the one loaded
\* from the file of n (Option).
WorkedOn(n) ==
    IF n \in DOMAIN configs THEN << configs[n] >>
    ELSE IF n \in DOMAIN disk /\ Parsed(n).kind = "Ok" THEN << Parsed(n).cfg >>
    ELSE <<>>

\* The result of add_section(n, sec_type, name) for a config cfg in which sec
\* is the section found for that name.
NothingAdded(n, cfg, sec, sec_type, name, r, after) ==
    /\ n \in DOMAIN after
    /\ after[n] = cfg
    /\ IF sec.sec_type = sec_type THEN r.res = "Ok"
       ELSE /\ r.res = "Err"
            /\ r.msg = "type mismatch for " \o n \o "." \o Str(name)
                            \o ", got " \o Str(sec.sec_type) \o ", want " \o Str(sec_type)

\* C26: add_section with a non-empty name that is the name of a section adds
\* nothing and leaves the sections and the modified flag of the config as they
\* were; it returns Ok when that section has the type asked for and a "type
\* mismatch" error when it has another type.
C26_AddSectionExistingName ==
    [][(IsCall("add_section") /\ last'.args[2] # <<>>)
          => \A cfg \in Range(WorkedOn(last'.name)) :
                \A i \in DOMAIN cfg.sections :
                    (/\ cfg.sections[i].name = last'.args[2]
                     /\ \A j \in 1..(i - 1) : cfg.sections[j].name # last'.args[2])
                        => NothingAdded(last'.name, cfg, cfg.sections[i], last'.args[1],
                                        last'.args[2], last', configs')]_vars

\* The same for the section that UciConfig::get finds for the name, which is
\* the section of that name unless the name starts with '@'.
AddSectionFoundByGet ==
    [][(IsCall("add_section") /\ last'.args[2] # <<>> /\ last'.res # "Panic")
          => \A cfg \in Range(WorkedOn(last'.name)) :
                \A i \in DOMAIN cfg.sections :
                    (/\ config_get(cfg, last'.args[2]).ok
                     /\ config_get(cfg, last'.args[2]).pos = i)
                        => NothingAdded(last'.name, cfg, cfg.sections[i], last'.args[1],
                                        last'.args[2], last', configs')]_vars

\* The step is a merge of an option into a section that holds an option of
\* that name and of the other kind.
MergedOtherKind ==
    /\ applied'.op = "merge"
    /\ applied'.count = applied.count + 1
    /\ applied'.had # <<>>
    /\ applied'.had[1].opt_type # applied'.typ[1]

\* seq and after differ at most at position i.
SameBut(seq, after, i) ==
    /\ Len(after) = Len(seq)
    /\ \A j \in DOMAIN seq : j # i => after[j] = seq[j]

\* C31: merging an option into a section that holds an option of the same
\* name and of the other kind gives that option the kind and the values of
\* the incoming one, and leaves every other option as it was and in place.
C31_MergeOtherKindReplaces ==
    [][MergedOtherKind =>
          \E i \in DOMAIN section.options :
              /\ section.options[i] = applied'.had[1]
              /\ SameBut(section.options, section'.options, i)
              /\ section'.options[i] =
                     UciOption_new(applied'.name, applied'.typ[1], applied'.values)
              /\ section'.name = section.name
              /\ section'.sec_type = section.sec_type]_vars

\* A list of two values has been merged over a scalar, the second of two options.
C31_Witness ==
    /\ applied.op = "merge"
    /\ applied.had # <<>>
    /\ applied.had[1].opt_type = "TypeOption"
    /\ applied.typ = << "TypeList" >>
    /\ Len(applied.values) = 2
    /\ Len(section.options) = 2
    /\ section.options[2].name = applied.name

\* The sections as the token stream writes them, one per section header,
\* each with the options of the lines that follow it.
RECURSIVE WrittenSections(_, _)
WrittenSections(tokens, acc) ==
    IF tokens = <<>> THEN acc
    ELSE IF Head(tokens).typ = "Section"
    THEN WrittenSections(Tail(tokens),
            Append(acc, UciSection_new(TokenKey(Head(tokens)).sec_type, TokenKey(Head(tokens)).name)))
    ELSE IF Head(tokens).typ \in {"Option", "List"} /\ acc # <<>>
    THEN WrittenSections(Tail(tokens),
            [acc EXCEPT ![Len(acc)] =
                IF Head(tokens).typ = "Option"
                THEN parse_option(@, Head(tokens).items[1].val, Head(tokens).items[2].val)
                ELSE parse_list(@, Head(tokens).items[1].val, Head(tokens).items[2].val)])
    ELSE WrittenSections(Tail(tokens), acc)

\* The written sections in the order of their first occurrence: a section
\* whose non-empty name occurred before is merged into the first section of
\* that name, every other section is appended.
RECURSIVE FirstOccurrences(_, _)
FirstOccurrences(written, acc) ==
    IF written = <<>> THEN acc
    ELSE IF Head(written).name # <<>> /\ \E i \in DOMAIN acc : acc[i].name = Head(written).name
    THEN FirstOccurrences(Tail(written),
            [acc EXCEPT ![CHOOSE i \in DOMAIN acc : acc[i].name = Head(written).name] =
                MergeOptions(@, Head(written).options)])
    ELSE FirstOccurrences(Tail(written), Append(acc, Head(written)))

InDocumentOrder(p, tokens) ==
    p.kind = "Ok" => p.cfg.sections = FirstOccurrences(WrittenSections(tokens, <<>>), <<>>)

\* C32: the sections of a parsed config are the sections of the text in the
\* order of their first occurrence; a later section with a name seen before
\* is merged into the first section of that name, which keeps its position and
\* type, and every other section is where it would be without the later one.
C32_SectionsInDocumentOrder ==
    parsed # <<>> => InDocumentOrder(parsed[1], scan_all(Scanner_new("a", text)))

\* get(name) returns the section at position p of cfg; name is an
\* Option<String>, none when get_section_name panics.
ResolvesTo(cfg, name, p) ==
    /\ name # <<>>
    /\ config_get(cfg, name[1]).ok
    /\ config_get(cfg, name[1]).pos = p

\* C33: in a parsed config, get(get_section_name(s)) returns s itself for
\* every anonymous section s, so two anonymous sections never share a
\* canonical name, also when they have the same type and the same options.
C33_AnonymousNameResolves ==
    (parsed # <<>> /\ parsed[1].kind = "Ok") =>
        \A p \in DOMAIN parsed[1].cfg.sections :
            parsed[1].cfg.sections[p].name = <<>> =>
                ResolvesTo(parsed[1].cfg,
                           get_section_name(parsed[1].cfg, parsed[1].cfg.sections[p]), p)

\* The canonical name of the section at position p: its name, or for an
\* anonymous section the positional form with the number of sections of its
\* type in front of it.
CanonicalName(cfg, p) ==
    IF cfg.sections[p].name # <<>> THEN cfg.sections[p].name
    ELSE Selector(cfg.sections[p].sec_type, CountBefore(cfg, cfg.sections[p].sec_type, p - 1))

\* The positions of the sections of cfg with the canonical name name.
Named(cfg, name) == {p \in DOMAIN cfg.sections : CanonicalName(cfg, p) = name}

\* after is cfg without the first of the sections at the positions ps, or cfg
\* itself when there is none.
FirstRemoved(cfg, ps, after) ==
    /\ after = [cfg EXCEPT !.sections = IF ps = {} THEN @ ELSE RemoveAt(@, Least(ps))]

\* C34: del(name) removes the first section whose canonical name is name and
\* no other, keeps the remaining sections in their order, and changes nothing
\* when no section has that canonical name.
C34_DelRemovesFirstOfName ==
    (edited # <<>> /\ edited[1].op = "del") =>
        /\ ~edited[1].panic
        /\ FirstRemoved(parsed[1].cfg, Named(parsed[1].cfg, edited[1].name), edited[1].cfg)

\* after is cfg without the section that get resolved to (r), when it
\* resolved to one.
ResolvedRemoved(cfg, r, after) ==
    (r.ok /\ r.pos # 0) => after = [cfg EXCEPT !.sections = RemoveAt(@, r.pos)]

\* C35: del called with a positional selector that get resolves to a section
\* removes exactly that section, for non-negative and negative indices and for
\* anonymous and named sections.
C35_DelRemovesWhatGetResolves ==
    (edited # <<>> /\ edited[1].op = "del" /\ edited[1].name[1] = "@") =>
        ResolvedRemoved(parsed[1].cfg, config_get(parsed[1].cfg, edited[1].name), edited[1].cfg)

\* after is cfg with the options of sec merged into the first of the sections
\* at the positions ps, or with sec appended when there is none.
MergedOrAppended(cfg, sec, ps, after) ==
    after = [cfg EXCEPT !.sections =
                IF ps = {} THEN Append(@, sec)
                ELSE [@ EXCEPT ![Least(ps)] = MergeOptions(@, sec.options)]]

\* C36: merge(section) never panics; it merges the options of the section
\* into the existing section of the same canonical name and appends the
\* section when there is none, also for an anonymous section and for a section
\* whose type the config does not hold yet.
C36_MergeNeverPanics ==
    (edited # <<>> /\ edited[1].op = "merge") =>
        /\ ~edited[1].panic
        /\ MergedOrAppended(parsed[1].cfg, edited[1].section,
                            IF edited[1].section.name = <<>> THEN {}
                            ELSE Named(parsed[1].cfg, edited[1].section.name),
                            edited[1].cfg)

\* The line of the i-th value of an option.
ValueLine(opt, i) ==
    <<"\t">> \o (IF opt.opt_type = "TypeOption" THEN KW_OPTION ELSE KW_LIST)
        \o <<" ">> \o opt.name \o <<" ", "'">> \o opt.values[i] \o <<"'", "\n">>

\* The number of lines of an option: one for a Scalar, one per value for a List.
LinesOf(opt) == IF opt.opt_type = "TypeOption" THEN 1 ELSE Len(opt.values)

OptionText(opt) == Concat([i \in 1..LinesOf(opt) |-> ValueLine(opt, i)])

SectionText(sec) ==
    <<"\n">> \o KW_CONFIG \o <<" ">> \o sec.sec_type
        \o (IF sec.name = <<>> THEN <<>> ELSE <<" ", "'">> \o sec.name \o <<"'">>) \o <<"\n">>
        \o Concat([i \in DOMAIN sec.options |-> OptionText(sec.options[i])])

ConfigText(cfg) ==
    (IF cfg.pkg_name = <<>> THEN <<>>
     ELSE <<"\n">> \o KW_PACKAGE \o <<" ", "'">> \o cfg.pkg_name \o <<"'", "\n">>)
        \o Concat([i \in DOMAIN cfg.sections |-> SectionText(cfg.sections[i])])
        \o <<"\n">>

\* Every stored value of every option has a line.
EveryValueWritten(cfg) ==
    \A i \in DOMAIN cfg.sections :
        \A j \in DOMAIN cfg.sections[i].options :
            LinesOf(cfg.sections[i].options[j]) = Len(cfg.sections[i].options[j].values)

\* C37: a commit in which no I/O step fails writes, for every modified
\* config, the package header if the package name is not empty, then each
\* section in stored order as an empty line, its "config" line and its
\* options in stored order, one "option" line for a Scalar and one "list"
\* line per value of a List, and a final empty line; every stored value of
\* every option is in that text.
C37_SerializationFormat ==
    [][(IsCall("commit") /\ last'.fault.step = "none")
          => \A n \in DOMAIN configs :
                configs[n].modified =>
                    /\ EveryValueWritten(configs[n])
                    /\ n \in DOMAIN disk'
                    /\ disk'[n] = ConfigText(configs[n])]_vars

\* The tree of the cached config n is the parse of its file.
TreeIsFile(n) ==
    /\ n \in DOMAIN disk
    /\ Parsed(n).kind = "Ok"
    /\ Parsed(n).cfg = configs[n]

\* C38: every cached config with modified = false has a tree equal to the
\* parse of its file, so that a commit skips no config whose tree differs
\* from its file.
C38_UnmodifiedTreeIsFile ==
    \A n \in DOMAIN configs : ~configs[n].modified => TreeIsFile(n)

\* C39: commit and get_option_last_value return a value or an error and
\* never panic, in every state the store can reach.
C39_CommitAndLastValueNeverPanic ==
    last.op \in {"commit", "get_option_last_value"} => last.res # "Panic"

\* The file of config n exists and does not parse.
Unparseable(n) == n \in DOMAIN disk /\ Parsed(n).kind = "Err"

\* C40: add_section for a config that is not cached and whose file exists but
\* does not parse returns the error of the load and caches nothing, and no
\* step overwrites a file that does not parse.
C40_AddSectionKeepsBadFile ==
    [][\A n \in Names :
          Unparseable(n) =>
              /\ SameFile(n)
              /\ (IsCall("add_section") /\ last'.name = n /\ n \notin DOMAIN configs)
                    => /\ last'.res = "Err"
                       /\ last'.msg = Parsed(n).msg
                       /\ configs' = configs]_vars

====
